---- MODULE Spec2Model ----
(***************************************************************************)
(* Model of the scene-mutation core of hue-backup:                         *)
(*   commands/scene_management.py  duplicate-scene and modify-scenes       *)
(*   models/zone_utils.py          filter_scene_actions_for_zone,          *)
(*                                 generate_zone_scene_name                *)
(*   core/auth.py                  create_user_via_link_button             *)
(* Strings are sequences of one-character strings so that lower(),         *)
(* substring tests, split/strip and float() are computed, not assumed.     *)
(***************************************************************************)
EXTENDS Integers, Sequences, FiniteSets, TLC

VARIABLES
    cmd,              \* which entry point runs: "duplicate", "modify", "project", "name",
                      \* "pair"
    lights,           \* controller.get_lights()
    all_groups,       \* controller.get_rooms() + controller.get_zones()
    scenes,           \* controller.get_scenes(): the snapshots handed to the command
    args,             \* the click arguments and options of the invocation
    pc,               \* position of the command
    error,            \* why the command returned early ("none" while it has not)
    group_rid,        \* modify-scenes: id of the resolved room/zone
    target_scenes,    \* modify-scenes: indices (into scenes) of the scenes of the group
    light_operations, \* modify-scenes: the validated operations
    cur,              \* modify-scenes: position in target_scenes; duplicate-scene: source_obj index
    new_actions,      \* the working copy of the actions
    modified,         \* modify-scenes: the per-scene modified flag
    success_count,
    skip_count,
    fail_count,
    new_scene_id,     \* result of the last create_scene call
    calls,            \* the create_scene / delete_scene calls issued, in order
    bridge,           \* ids of the scenes that exist on the bridge
    proj_in,          \* filter_scene_actions_for_zone: its arguments
    proj_out,         \* filter_scene_actions_for_zone: its result
    listed,           \* duplicate-scene: the scenes printed as "Multiple scenes match"
    name_in,          \* generate_zone_scene_name: its arguments
    name_out,         \* generate_zone_scene_name: its result
    attempt,          \* create_user_via_link_button: the loop variable
    posts,            \* create_user_via_link_button: the outcome of each POST, in order
    token             \* create_user_via_link_button: what it returned

cmdVars == <<cmd, lights, all_groups, scenes, args, pc, error, group_rid,
             target_scenes, light_operations, cur, new_actions, modified,
             success_count, skip_count, fail_count, new_scene_id, calls, bridge,
             listed>>
projVars == <<proj_in, proj_out>>
nameVars == <<name_in, name_out>>
pairVars == <<attempt, posts, token>>
vars == <<cmdVars, projVars, nameVars, pairVars>>

\* Python's None, where a light id is expected
None == "None"

\* Python's None, where a palette is expected
NoPalette == [is_none |-> TRUE]

----
\* Bounds of the model
MaxScenes == 3
MaxEdits == 2
MaxSrcActions == 2
MaxZoneLights == 3

----
\* Strings

\* str.lower() on the characters the model uses
LowerChar(c) ==
    CASE c = "L" -> "l"
      [] c = "A" -> "a"
      [] c = "D" -> "d"
      [] c = "K" -> "k"
      [] c = "R" -> "r"
      [] c = "B" -> "b"
      [] c = "C" -> "c"
      [] c = "E" -> "e"
      [] c = "G" -> "g"
      [] c = "I" -> "i"
      [] c = "M" -> "m"
      [] c = "N" -> "n"
      [] c = "O" -> "o"
      [] c = "X" -> "x"
      [] c = "Z" -> "z"
      [] OTHER -> c

Lower(s) == [i \in 1..Len(s) |-> LowerChar(s[i])]

\* Python's `q in s` on strings
Contains(q, s) ==
    \E i \in 0..(Len(s) - Len(q)) : SubSeq(s, i + 1, i + Len(q)) = q

\* str.strip(): leading and trailing blanks removed
RECURSIVE LStrip(_)
LStrip(s) == IF s # <<>> /\ s[1] = " " THEN LStrip(Tail(s)) ELSE s

RECURSIVE RStrip(_, _)
RStrip(s, c) ==
    IF s # <<>> /\ s[Len(s)] = c THEN RStrip(SubSeq(s, 1, Len(s) - 1), c) ELSE s

Strip(s) == RStrip(LStrip(s), " ")

\* index of the first "=" of s, 0 when there is none
RECURSIVE FirstEq(_, _)
FirstEq(s, i) ==
    IF i > Len(s) THEN 0 ELSE IF s[i] = "=" THEN i ELSE FirstEq(s, i + 1)

DigitVal(c) ==
    CASE c = "0" -> 0 [] c = "1" -> 1 [] c = "2" -> 2 [] c = "3" -> 3
      [] c = "4" -> 4 [] c = "5" -> 5 [] c = "6" -> 6 [] c = "7" -> 7
      [] c = "8" -> 8 [] c = "9" -> 9 [] OTHER -> -1

IsDigits(s) == s # <<>> /\ \A i \in 1..Len(s) : DigitVal(s[i]) >= 0

RECURSIVE DigitsValue(_)
DigitsValue(s) ==
    IF s = <<>> THEN 0
    ELSE 10 * DigitsValue(SubSeq(s, 1, Len(s) - 1)) + DigitVal(s[Len(s)])

\* float(s) on whole-number literals: surrounding blanks are accepted, an
\* optional sign, then digits; anything else raises ValueError
ParseFloat(s) ==
    LET t == Strip(s) IN
    IF IsDigits(t) THEN [ok |-> TRUE, val |-> DigitsValue(t)]
    ELSE IF t # <<>> /\ t[1] = "-" /\ IsDigits(Tail(t))
         THEN [ok |-> TRUE, val |-> 0 - DigitsValue(Tail(t))]
    ELSE IF t # <<>> /\ t[1] = "+" /\ IsDigits(Tail(t))
         THEN [ok |-> TRUE, val |-> DigitsValue(Tail(t))]
    ELSE [ok |-> FALSE, val |-> 0]

\* ParseBrightness without the 0..100 range test
ParseBrightness_NoRange(spec) ==
    LET e == FirstEq(spec, 1) IN
    IF e = 0 THEN [err |-> "brightness_format", name |-> <<>>, val |-> 0]
    ELSE
      LET light_name     == Strip(SubSeq(spec, 1, e - 1))
          brightness_str == RStrip(Strip(SubSeq(spec, e + 1, Len(spec))), "%")
          f              == ParseFloat(brightness_str)
      IN  IF ~f.ok THEN [err |-> "brightness_value", name |-> light_name, val |-> 0]
          ELSE [err |-> "none", name |-> light_name, val |-> f.val]

\* The parsing of one --brightness value: '=' test, split('=', 1), strip,
\* rstrip('%'), float(), range test.
ParseBrightness(spec) ==
    LET e == FirstEq(spec, 1) IN
    IF e = 0 THEN [err |-> "brightness_format", name |-> <<>>, val |-> 0]
    ELSE
      LET light_name     == Strip(SubSeq(spec, 1, e - 1))
          brightness_str == RStrip(Strip(SubSeq(spec, e + 1, Len(spec))), "%")
          f              == ParseFloat(brightness_str)
      IN  IF ~f.ok THEN [err |-> "brightness_value", name |-> light_name, val |-> 0]
          ELSE IF ~(0 <= f.val /\ f.val <= 100)
               THEN [err |-> "brightness_range", name |-> light_name, val |-> f.val]
          ELSE [err |-> "none", name |-> light_name, val |-> f.val]

----
\* Dictionaries (Python dict with string keys) are functions on a set of keys

HasKey(d, k) == k \in DOMAIN d

\* dict.pop(k, None)
Pop(d, k) == [x \in (DOMAIN d) \ {k} |-> d[x]]

\* d[k] = v
Put(d, k, v) == [x \in (DOMAIN d) \cup {k} |-> IF x = k THEN v ELSE d[x]]

\* an action entry of a scene
Act(rid, st) == [target |-> [rid |-> rid, rtype |-> "light"], action |-> st]

\* the minimal off action both commands and the projector append
OffAction(rid) == Act(rid, [on |-> [on |-> FALSE]])

\* the action --turn-on appends for a light that has none
OnAction(rid) == Act(rid, [on |-> [on |-> TRUE], dimming |-> [brightness |-> 100]])

----
\* The bridge data the commands read

\* the names used by the model, as character sequences
nLamp    == <<"L", "a", "m", "p">>
nLava    == <<"L", "a", "v", "a">>
nDesk    == <<"D", "e", "s", "k">>
nLounge  == <<"L", "o", "u", "n", "g", "e">>
nKitchen == <<"K", "i", "t", "c", "h", "e", "n">>
nRelax   == <<"R", "e", "l", "a", "x">>
nRelaxB  == <<"R", "e", "l", "a", "x", " ", "B", "r", "i", "g", "h", "t">>
nRead    == <<"R", "e", "a", "d">>

BridgeLights ==
    << [id |-> "l1", metadata |-> [name |-> nLamp]],
       [id |-> "l2", metadata |-> [name |-> nLava]],
       [id |-> "l3", metadata |-> [name |-> nDesk]] >>

\* a bridge on which two lights of the room carry the same name up to case
TwinLights ==
    << [id |-> "l1", metadata |-> [name |-> nLamp]],
       [id |-> "l2", metadata |-> [name |-> Lower(nLamp)]],
       [id |-> "l3", metadata |-> [name |-> nDesk]] >>

BridgeGroups ==
    << [id |-> "g1", type |-> "room", metadata |-> [name |-> nLounge],
        children |-> << [rid |-> "d1", rtype |-> "device"],
                        [rid |-> "l1", rtype |-> "light"],
                        [rid |-> "l2", rtype |-> "light"] >>],
       [id |-> "g2", type |-> "zone", metadata |-> [name |-> nKitchen],
        children |-> << [rid |-> "l3", rtype |-> "light"] >>] >>

\* a bridge that also has a zone whose name contains the room's name
nCombinedLounge == <<"C", "o", "m", "b", "i", "n", "e", "d", " ">> \o nLounge
NestedGroups ==
    << BridgeGroups[1],
       BridgeGroups[2],
       [id |-> "g3", type |-> "zone", metadata |-> [name |-> nCombinedLounge],
        children |-> << [rid |-> "l1", rtype |-> "light"],
                        [rid |-> "l2", rtype |-> "light"],
                        [rid |-> "l3", rtype |-> "light"] >>] >>

\* action states a scene of the bridge can hold
stOff     == [on |-> [on |-> FALSE]]
stColor   == [on |-> [on |-> TRUE], dimming |-> [brightness |-> 80],
              color |-> [xy |-> <<3, 4>>]]
stCt      == [on |-> [on |-> TRUE], dimming |-> [brightness |-> 50],
              color_temperature |-> [mirek |-> 300]]
stDimOnly == [dimming |-> [brightness |-> 30]]

\* the scene shapes the model draws from: group, actions and pass-through settings
SceneTemplates ==
    << [group |-> [rid |-> "g1", rtype |-> "room"],
        actions |-> <<Act("l1", stColor), Act("l2", stOff)>>,
        auto_dynamic |-> FALSE, speed |-> 5,
        palette |-> [color |-> <<1>>, effects |-> <<2>>, effects_v2 |-> <<3>>]],
       [group |-> [rid |-> "g1", rtype |-> "room"],
        actions |-> <<Act("l1", stOff), Act("l2", stCt)>>,
        auto_dynamic |-> TRUE, speed |-> 6,
        palette |-> [color |-> <<1>>, effects_v2 |-> <<3>>]],
       [group |-> [rid |-> "g1", rtype |-> "room"],
        actions |-> <<Act("l2", stDimOnly)>>,
        auto_dynamic |-> TRUE, speed |-> 6,
        palette |-> NoPalette],
       [group |-> [rid |-> "g2", rtype |-> "zone"],
        actions |-> <<Act("l3", stCt)>>,
        auto_dynamic |-> FALSE, speed |-> 7,
        palette |-> NoPalette] >>

\* a scene of the room in which the action of l1 also carries an effect
stEffect == [on |-> [on |-> TRUE], dimming |-> [brightness |-> 50],
             color_temperature |-> [mirek |-> 300], effects |-> [effect |-> "candle"]]
EffectScene ==
    [id |-> 1, metadata |-> [name |-> nRelax],
     group |-> [rid |-> "g1", rtype |-> "room"],
     actions |-> <<Act("l1", stEffect), Act("l2", stCt)>>,
     auto_dynamic |-> TRUE, speed |-> 6,
     palette |-> [color |-> <<1>>, effects_v2 |-> <<3>>]]

\* the scene names of the bridge, by position in get_scenes()
SceneName(i) == IF i = 1 THEN nRelax ELSE IF i = 2 THEN nRelaxB ELSE nRead

\* the scene at position i built from template t; its id is its position
MkScene(i, t) ==
    [id |-> i, metadata |-> [name |-> SceneName(i)],
     group |-> SceneTemplates[t].group,
     actions |-> SceneTemplates[t].actions,
     auto_dynamic |-> SceneTemplates[t].auto_dynamic,
     speed |-> SceneTemplates[t].speed,
     palette |-> SceneTemplates[t].palette]

\* the scene at position i built from template t under another name
MkNamedScene(i, name, t) == [MkScene(i, t) EXCEPT !.metadata.name = name]

\* every get_scenes() result of length 1..n whose scenes take their names from
\* names and their templates from ts: equal names occur, in one group or in two
NamedSceneLists(n, names, ts) ==
    UNION { { [i \in 1..k |-> MkNamedScene(i, c[i][1], c[i][2])] :
                c \in [1..k -> names \X ts] } : k \in 1..n }

\* every get_scenes() result of length 1..n
SceneLists(n) ==
    UNION { { [i \in 1..k |-> MkScene(i, ts[i])] :
                ts \in [1..k -> DOMAIN SceneTemplates] } : k \in 1..n }

----
\* Name resolution

\* keys of {l.metadata.name.lower(): l.id for l in lights}
LightKeys(ls) == { Lower(ls[i].metadata.name) : i \in DOMAIN ls }

\* value of that dict at key k: a later light overwrites an earlier one
LightAt(ls, k) ==
    LET last == CHOOSE i \in DOMAIN ls :
                    /\ Lower(ls[i].metadata.name) = k
                    /\ \A j \in DOMAIN ls : Lower(ls[j].metadata.name) = k => j <= i
    IN  ls[last].id

\* duplicate-scene's find_light_rid: the light id, or None with the reason
find_light_rid(ls, light_name) ==
    LET light_name_lower == Lower(light_name)
        matches == { k \in LightKeys(ls) : Contains(light_name_lower, k) }
    IN  IF light_name_lower \in LightKeys(ls)
        THEN [rid |-> LightAt(ls, light_name_lower), err |-> "none"]
        ELSE IF Cardinality(matches) = 1
        THEN [rid |-> LightAt(ls, CHOOSE k \in matches : TRUE), err |-> "none"]
        ELSE IF Cardinality(matches) > 1
        THEN [rid |-> None, err |-> "light_ambiguous"]
        ELSE [rid |-> None, err |-> "light_not_found"]

\* next(l.metadata.name for l in lights if l.id == rid)
ActualName(ls, rid) ==
    LET first == CHOOSE i \in DOMAIN ls :
                    ls[i].id = rid /\ \A j \in DOMAIN ls : ls[j].id = rid => i <= j
    IN  ls[first].metadata.name

\* modify-scenes' find_light_rid: (rid, actual_name) or (None, None)
find_light_rid_bulk(ls, light_name) ==
    LET light_name_lower == Lower(light_name)
        matches == { k \in LightKeys(ls) : Contains(light_name_lower, k) }
    IN  IF light_name_lower \in LightKeys(ls)
        THEN LET rid == LightAt(ls, light_name_lower)
             IN  [rid |-> rid, actual_name |-> ActualName(ls, rid), err |-> "none"]
        ELSE IF Cardinality(matches) = 1
        THEN LET rid == LightAt(ls, CHOOSE k \in matches : TRUE)
             IN  [rid |-> rid, actual_name |-> ActualName(ls, rid), err |-> "none"]
        ELSE IF Cardinality(matches) > 1
        THEN [rid |-> None, actual_name |-> <<>>, err |-> "light_ambiguous"]
        ELSE [rid |-> None, actual_name |-> <<>>, err |-> "light_not_found"]

\* find_action_index: position of the first action for the light, 0 for None
find_action_index(acts, light_rid) ==
    IF \E i \in DOMAIN acts : acts[i].target.rid = light_rid
    THEN CHOOSE i \in DOMAIN acts :
            /\ acts[i].target.rid = light_rid
            /\ \A j \in DOMAIN acts : acts[j].target.rid = light_rid => i <= j
    ELSE 0

\* [x for x in xs if P(x)] as the ordered list of the positions kept
RECURSIVE FilterIdx(_, _, _)
FilterIdx(xs, keep, i) ==
    IF i > Len(xs) THEN <<>>
    ELSE (IF keep[i] THEN <<i>> ELSE <<>>) \o FilterIdx(xs, keep, i + 1)

\* positions of the rooms/zones whose name contains the query
matching_groups(groups, query) ==
    FilterIdx(groups,
              [i \in DOMAIN groups |-> Contains(Lower(query), Lower(groups[i].metadata.name))],
              1)

\* positions of the scenes bound to the group
ScenesOfGroup(ss, rid) ==
    FilterIdx(ss, [i \in DOMAIN ss |-> ss[i].group.rid = rid], 1)

\* [child.rid for child in children if child.rtype == 'light']
RECURSIVE LightChildren(_)
LightChildren(children) ==
    IF children = <<>> THEN <<>>
    ELSE (IF Head(children).rtype = "light" THEN <<Head(children).rid>> ELSE <<>>)
         \o LightChildren(Tail(children))

\* get_zone_lights: the light ids among the children of a room/zone
get_zone_lights(zone) == LightChildren(zone.children)

----
\* The edits of duplicate-scene (single-scene path)

\* --turn-off on one resolved light
TurnOffEdit(acts, light_rid) ==
    LET idx == find_action_index(acts, light_rid) IN
    IF idx # 0
    THEN [acts EXCEPT ![idx].action =
             Pop(Pop(Pop(Put(@, "on", [on |-> FALSE]), "dimming"), "color"),
                 "color_temperature")]
    ELSE Append(acts, OffAction(light_rid))

\* --turn-on on one resolved light
TurnOnEdit(acts, light_rid) ==
    LET idx == find_action_index(acts, light_rid) IN
    IF idx # 0
    THEN [acts EXCEPT ![idx].action = Put(@, "on", [on |-> TRUE])]
    ELSE Append(acts, OnAction(light_rid))

\* SetBrightness that always switches the light on
SetBrightness_ForceOn(acts, idx, brightness_val) ==
    [acts EXCEPT ![idx].action =
        Put(Put(@, "on", [on |-> TRUE]), "dimming", [brightness |-> brightness_val])]

\* --brightness on one resolved light that has an action at idx
SetBrightness(acts, idx, brightness_val) ==
    [acts EXCEPT ![idx].action =
        Put(IF HasKey(@, "on") THEN @ ELSE Put(@, "on", [on |-> TRUE]),
            "dimming", [brightness |-> brightness_val])]

\* new_actions.pop(idx)
PopAt(acts, idx) == SubSeq(acts, 1, idx - 1) \o SubSeq(acts, idx + 1, Len(acts))

\* the --turn-off loop: the first unresolved name returns from the command
RECURSIVE DupTurnOffLoop(_, _, _)
DupTurnOffLoop(ls, names, acts) ==
    IF names = <<>> THEN [err |-> "none", actions |-> acts]
    ELSE LET r == find_light_rid(ls, Head(names)) IN
         IF r.rid = None THEN [err |-> r.err, actions |-> acts]
         ELSE DupTurnOffLoop(ls, Tail(names), TurnOffEdit(acts, r.rid))

\* the --turn-on loop
RECURSIVE DupTurnOnLoop(_, _, _)
DupTurnOnLoop(ls, names, acts) ==
    IF names = <<>> THEN [err |-> "none", actions |-> acts]
    ELSE LET r == find_light_rid(ls, Head(names)) IN
         IF r.rid = None THEN [err |-> r.err, actions |-> acts]
         ELSE DupTurnOnLoop(ls, Tail(names), TurnOnEdit(acts, r.rid))

\* the --brightness loop: format, value and range are tested before the light
\* is resolved, and a light without an action returns from the command
RECURSIVE DupBrightnessLoop(_, _, _)
DupBrightnessLoop(ls, specs, acts) ==
    IF specs = <<>> THEN [err |-> "none", actions |-> acts]
    ELSE LET b == ParseBrightness(Head(specs)) IN
         IF b.err # "none" THEN [err |-> b.err, actions |-> acts]
         ELSE LET r == find_light_rid(ls, b.name) IN
              IF r.rid = None THEN [err |-> r.err, actions |-> acts]
              ELSE LET idx == find_action_index(acts, r.rid) IN
                   IF idx # 0
                   THEN DupBrightnessLoop(ls, Tail(specs), SetBrightness(acts, idx, b.val))
                   ELSE [err |-> "light_not_in_scene", actions |-> acts]

\* the --remove-light loop: a light without an action is skipped with a warning
RECURSIVE DupRemoveLoop(_, _, _)
DupRemoveLoop(ls, names, acts) ==
    IF names = <<>> THEN [err |-> "none", actions |-> acts]
    ELSE LET r == find_light_rid(ls, Head(names)) IN
         IF r.rid = None THEN [err |-> r.err, actions |-> acts]
         ELSE LET idx == find_action_index(acts, r.rid) IN
              DupRemoveLoop(ls, Tail(names),
                            IF idx # 0 THEN PopAt(acts, idx) ELSE acts)

----
\* The edits of modify-scenes (bulk path)

\* one loop of the validation: names resolved into operations of one type
RECURSIVE ValidateNames(_, _, _, _)
ValidateNames(ls, names, op_type, ops) ==
    IF names = <<>> THEN [err |-> "none", ops |-> ops]
    ELSE LET r == find_light_rid_bulk(ls, Head(names)) IN
         IF r.rid = None THEN [err |-> r.err, ops |-> ops]
         ELSE ValidateNames(ls, Tail(names), op_type,
                            Append(ops, <<op_type, r.rid, r.actual_name>>))

\* the --brightness loop of the validation
RECURSIVE ValidateBrightness(_, _, _)
ValidateBrightness(ls, specs, ops) ==
    IF specs = <<>> THEN [err |-> "none", ops |-> ops]
    ELSE LET b == ParseBrightness(Head(specs)) IN
         IF b.err # "none" THEN [err |-> b.err, ops |-> ops]
         ELSE LET r == find_light_rid_bulk(ls, b.name) IN
              IF r.rid = None THEN [err |-> r.err, ops |-> ops]
              ELSE ValidateBrightness(ls, Tail(specs),
                       Append(ops, <<"brightness", r.rid, r.actual_name, b.val>>))

\* ValidateAll that queues the remove operations last
ValidateAll_RemoveLast(ls, a) ==
    LET r1 == ValidateNames(ls, a.turn_off, "turn_off", <<>>) IN
    IF r1.err # "none" THEN r1 ELSE
    LET r2 == ValidateNames(ls, a.turn_on, "turn_on", r1.ops) IN
    IF r2.err # "none" THEN r2 ELSE
    LET r3 == ValidateBrightness(ls, a.brightness, r2.ops) IN
    IF r3.err # "none" THEN r3 ELSE
    ValidateNames(ls, a.remove_light, "remove", r3.ops)

\* "Validate all light names first": remove, turn_off, turn_on, brightness
ValidateAll(ls, a) ==
    LET r1 == ValidateNames(ls, a.remove_light, "remove", <<>>) IN
    IF r1.err # "none" THEN r1 ELSE
    LET r2 == ValidateNames(ls, a.turn_off, "turn_off", r1.ops) IN
    IF r2.err # "none" THEN r2 ELSE
    LET r3 == ValidateNames(ls, a.turn_on, "turn_on", r2.ops) IN
    IF r3.err # "none" THEN r3 ELSE
    ValidateBrightness(ls, a.brightness, r3.ops)

\* ApplyOp where remove takes the action of the light out of the list
ApplyOp_RemovePops(st, op) ==
    LET acts == st.actions
        idx  == find_action_index(acts, op[2])
    IN  CASE op[1] = "remove" ->
               IF idx # 0
               THEN [actions |-> PopAt(acts, idx), modified |-> TRUE]
               ELSE st
          [] op[1] = "turn_off" ->
               IF idx # 0
               THEN [actions |-> [acts EXCEPT ![idx].action =
                         Pop(Pop(Pop(Put(@, "on", [on |-> FALSE]), "dimming"), "color"),
                             "color_temperature")],
                     modified |-> TRUE]
               ELSE [actions |-> Append(acts, OffAction(op[2])), modified |-> TRUE]
          [] op[1] = "turn_on" ->
               IF idx # 0
               THEN [actions |-> [acts EXCEPT ![idx].action = Put(@, "on", [on |-> TRUE])],
                     modified |-> TRUE]
               ELSE [actions |-> Append(acts, OnAction(op[2])), modified |-> TRUE]
          [] op[1] = "brightness" ->
               IF idx # 0
               THEN [actions |-> SetBrightness(acts, idx, op[4]), modified |-> TRUE]
               ELSE st

\* ApplyOp where set-brightness on a light without an action still marks the
\* scene as modified
ApplyOp_BrightnessMarks(st, op) ==
    LET acts == st.actions
        idx  == find_action_index(acts, op[2])
    IN  CASE op[1] = "remove" ->
               IF idx # 0
               THEN [actions |-> [acts EXCEPT ![idx].action = [on |-> [on |-> FALSE]]],
                     modified |-> TRUE]
               ELSE st
          [] op[1] = "turn_off" ->
               IF idx # 0
               THEN [actions |-> [acts EXCEPT ![idx].action =
                         Pop(Pop(Pop(Put(@, "on", [on |-> FALSE]), "dimming"), "color"),
                             "color_temperature")],
                     modified |-> TRUE]
               ELSE [actions |-> Append(acts, OffAction(op[2])), modified |-> TRUE]
          [] op[1] = "turn_on" ->
               IF idx # 0
               THEN [actions |-> [acts EXCEPT ![idx].action = Put(@, "on", [on |-> TRUE])],
                     modified |-> TRUE]
               ELSE [actions |-> Append(acts, OnAction(op[2])), modified |-> TRUE]
          [] op[1] = "brightness" ->
               IF idx # 0
               THEN [actions |-> SetBrightness(acts, idx, op[4]), modified |-> TRUE]
               ELSE [actions |-> acts, modified |-> TRUE]

\* one operation applied to the working copy of one scene
ApplyOp(st, op) ==
    LET acts == st.actions
        idx  == find_action_index(acts, op[2])
    IN  CASE op[1] = "remove" ->
               IF idx # 0
               THEN [actions |-> [acts EXCEPT ![idx].action =
                         Pop(Pop(Pop([on |-> [on |-> FALSE]], "dimming"), "color"),
                             "color_temperature")],
                     modified |-> TRUE]
               ELSE st
          [] op[1] = "turn_off" ->
               IF idx # 0
               THEN [actions |-> [acts EXCEPT ![idx].action =
                         Pop(Pop(Pop(Put(@, "on", [on |-> FALSE]), "dimming"), "color"),
                             "color_temperature")],
                     modified |-> TRUE]
               ELSE [actions |-> Append(acts, OffAction(op[2])), modified |-> TRUE]
          [] op[1] = "turn_on" ->
               IF idx # 0
               THEN [actions |-> [acts EXCEPT ![idx].action = Put(@, "on", [on |-> TRUE])],
                     modified |-> TRUE]
               ELSE [actions |-> Append(acts, OnAction(op[2])), modified |-> TRUE]
          [] op[1] = "brightness" ->
               IF idx # 0
               THEN [actions |-> SetBrightness(acts, idx, op[4]), modified |-> TRUE]
               ELSE st

\* "Apply each operation": the operations in the order of light_operations
RECURSIVE ApplyOps(_, _)
ApplyOps(st, ops) ==
    IF ops = <<>> THEN st ELSE ApplyOps(ApplyOp(st, Head(ops)), Tail(ops))

\* CleanPalette that passes the palette on as it is
CleanPalette_Keep(palette) == palette

\* palette = deepcopy(scene.palette) with the effects field deleted
CleanPalette(palette) ==
    IF palette # NoPalette /\ DOMAIN palette # {} /\ HasKey(palette, "effects")
    THEN Pop(palette, "effects")
    ELSE palette

----
\* Scene and group resolution of the two commands

\* SelectCand that stops at the first candidate that passes
RECURSIVE SelectCand_FirstOnly(_, _)
SelectCand_FirstOnly(cands, keep) ==
    IF cands = <<>> THEN <<>>
    ELSE IF keep[Head(cands)] THEN <<Head(cands)>>
    ELSE SelectCand_FirstOnly(Tail(cands), keep)

\* the candidates (positions in ss) that pass the test, in order
RECURSIVE SelectCand(_, _)
SelectCand(cands, keep) ==
    IF cands = <<>> THEN <<>>
    ELSE (IF keep[Head(cands)] THEN <<Head(cands)>> ELSE <<>>)
         \o SelectCand(Tail(cands), keep)

\* ResolveScene that takes the first of several matches
ResolveScene_PickFirst(ss, candidates, source_scene) ==
    LET source_scene_lower == Lower(source_scene)
        exact_matches == SelectCand(candidates,
            [i \in DOMAIN ss |-> Lower(ss[i].metadata.name) = source_scene_lower])
        partial_matches == SelectCand(candidates,
            [i \in DOMAIN ss |-> Contains(source_scene_lower, Lower(ss[i].metadata.name))])
    IN  IF Len(exact_matches) >= 1
        THEN [source |-> exact_matches[1], err |-> "none", listed |-> <<>>]
        ELSE IF Len(partial_matches) >= 1
        THEN [source |-> partial_matches[1], err |-> "none", listed |-> <<>>]
        ELSE [source |-> 0, err |-> "scene_not_found", listed |-> <<>>]

\* ResolveScene that tries the partial match before the exact match
ResolveScene_PartialFirst(ss, candidates, source_scene) ==
    LET source_scene_lower == Lower(source_scene)
        exact_matches == SelectCand(candidates,
            [i \in DOMAIN ss |-> Lower(ss[i].metadata.name) = source_scene_lower])
        partial_matches == SelectCand(candidates,
            [i \in DOMAIN ss |-> Contains(source_scene_lower, Lower(ss[i].metadata.name))])
    IN  IF Len(partial_matches) = 1
        THEN [source |-> partial_matches[1], err |-> "none", listed |-> <<>>]
        ELSE IF Len(partial_matches) > 1
        THEN [source |-> 0, err |-> "scene_ambiguous", listed |-> partial_matches]
        ELSE IF Len(exact_matches) = 1
        THEN [source |-> exact_matches[1], err |-> "none", listed |-> <<>>]
        ELSE IF Len(exact_matches) > 1
        THEN [source |-> 0, err |-> "scene_ambiguous", listed |-> exact_matches]
        ELSE [source |-> 0, err |-> "scene_not_found", listed |-> <<>>]

\* duplicate-scene: "Try exact match first", then "Try partial match"
ResolveScene(ss, candidates, source_scene) ==
    LET source_scene_lower == Lower(source_scene)
        exact_matches == SelectCand(candidates,
            [i \in DOMAIN ss |-> Lower(ss[i].metadata.name) = source_scene_lower])
        partial_matches == SelectCand(candidates,
            [i \in DOMAIN ss |-> Contains(source_scene_lower, Lower(ss[i].metadata.name))])
    IN  IF Len(exact_matches) = 1
        THEN [source |-> exact_matches[1], err |-> "none", listed |-> <<>>]
        ELSE IF Len(exact_matches) > 1
        THEN [source |-> 0, err |-> "scene_ambiguous", listed |-> exact_matches]
        ELSE IF Len(partial_matches) = 1
        THEN [source |-> partial_matches[1], err |-> "none", listed |-> <<>>]
        ELSE IF Len(partial_matches) > 1
        THEN [source |-> 0, err |-> "scene_ambiguous", listed |-> partial_matches]
        ELSE [source |-> 0, err |-> "scene_not_found", listed |-> <<>>]

\* the --zone / --room lookup: exactly one room/zone must contain the query
ResolveGroup(groups, query) ==
    LET m == matching_groups(groups, query) IN
    IF Len(m) = 0 THEN [group |-> 0, err |-> "group_not_found"]
    ELSE IF Len(m) > 1 THEN [group |-> 0, err |-> "group_ambiguous"]
    ELSE [group |-> m[1], err |-> "none"]

----
\* The inputs the model draws from

qLamp   == <<"l", "a", "m", "p">>
qLav    == <<"l", "a", "v">>
qLa     == <<"l", "a">>
qZz     == <<"z", "z">>
qLounge == <<"l", "o", "u", "n", "g", "e">>
qKit    == <<"K", "i", "t">>
qN      == <<"n">>
qRelax  == <<"r", "e", "l", "a", "x">>
qRel    == <<"R", "e", "l">>
qRead   == <<"r", "e", "a", "d">>
nNew    == <<"N", "e", "w">>

bLav50   == <<"l", "a", "v", "=", "5", "0", "%">>
bLamp20  == <<"l", "a", "m", "p", " ", "=", " ", "2", "0">>
bLamp150 == <<"L", "a", "m", "p", "=", "1", "5", "0", "%">>
bNoEq    == <<"l", "a", "m", "p", "5", "0">>
bBadNum  == <<"l", "a", "m", "p", "=", "x">>
bLa10    == <<"l", "a", "=", "1", "0">>

NameQueries     == {qLamp, qLav, qLa, qZz}
BrightnessSpecs == {bLav50, bLamp20, bLamp150, bNoEq, bBadNum, bLa10}
SceneQueries    == {qRelax, qRel, qRead, qZz}
GroupQueries    == {qLounge, qKit, qN, qZz}

\* one option occurrence on the command line: <<option, value>>
EditItems ==
    ({"turn_off", "turn_on", "remove_light"} \X NameQueries)
        \cup ({"brightness"} \X BrightnessSpecs)

\* the values given to one option, in command-line order
RECURSIVE ValuesOf(_, _)
ValuesOf(items, option) ==
    IF items = <<>> THEN <<>>
    ELSE (IF Head(items)[1] = option THEN <<Head(items)[2]>> ELSE <<>>)
         \o ValuesOf(Tail(items), option)

\* the edit options of every command line with at most n option occurrences
EditArgs(n) ==
    { [turn_off     |-> ValuesOf(items, "turn_off"),
       turn_on      |-> ValuesOf(items, "turn_on"),
       brightness   |-> ValuesOf(items, "brightness"),
       remove_light |-> ValuesOf(items, "remove_light")] :
      items \in UNION { [1..k -> EditItems] : k \in 0..n } }

OneEdit == [turn_off |-> <<qLamp>>, turn_on |-> <<>>, brightness |-> <<>>,
            remove_light |-> <<>>]

MkArgs(source_scene, zone, room, e, yes) ==
    [source_scene |-> source_scene, new_name |-> nNew, zone |-> zone, room |-> room,
     turn_off |-> e.turn_off, turn_on |-> e.turn_on, brightness |-> e.brightness,
     remove_light |-> e.remove_light, yes |-> yes]

\* the state every command starts in, given the bridge's data and the arguments
StartOn(c, ls, gs, ss, a) ==
    /\ cmd = c
    /\ lights = ls
    /\ all_groups = gs
    /\ scenes = ss
    /\ args = a
    /\ pc = "start"
    /\ error = "none"
    /\ group_rid = None
    /\ target_scenes = <<>>
    /\ light_operations = <<>>
    /\ cur = 0
    /\ new_actions = <<>>
    /\ modified = FALSE
    /\ success_count = 0
    /\ skip_count = 0
    /\ fail_count = 0
    /\ new_scene_id = 0
    /\ calls = <<>>
    /\ bridge = { ss[i].id : i \in DOMAIN ss }
    /\ listed = <<>>

\* the same on the usual lights and groups
Start(c, ss, a) == StartOn(c, BridgeLights, BridgeGroups, ss, a)

NoName == [original_name |-> <<>>, zone_name |-> <<>>, excluded_lights |-> <<>>]

NoProj == [scene |-> [actions |-> <<>>], zone_lights |-> <<>>, exclude_lights |-> <<>>]

\* modify-scenes on one scene with every edit combination
InitModifyEdits ==
    \E ss \in SceneLists(1), e \in EditArgs(MaxEdits) :
        Start("modify", ss, MkArgs(<<>>, <<>>, qLounge, e, FALSE))

\* modify-scenes on every scene list with at most one edit
InitModifyBulk ==
    \E ss \in SceneLists(MaxScenes), e \in EditArgs(1) :
        Start("modify", ss, MkArgs(<<>>, <<>>, qLounge, e, FALSE))

\* modify-scenes with every --room value and --yes
InitModifyResolve ==
    \E ss \in SceneLists(MaxScenes), q \in GroupQueries, yes \in BOOLEAN :
        Start("modify", ss, MkArgs(<<>>, <<>>, q, OneEdit, yes))

\* duplicate-scene of one scene with every edit combination
InitDupEdits ==
    \E ss \in SceneLists(1), e \in EditArgs(MaxEdits) :
        Start("duplicate", ss, MkArgs(qRelax, <<>>, <<>>, e, FALSE))

\* duplicate-scene with every source query, --zone value and --yes
InitDupResolve ==
    \E ss \in SceneLists(MaxScenes), q \in SceneQueries,
       z \in GroupQueries \cup {<<>>}, yes \in BOOLEAN :
        Start("duplicate", ss, MkArgs(q, z, <<>>, OneEdit, yes))

\* duplicate-scene on scenes that share names, with every source query and
\* with and without a --zone filter
InitDupNames ==
    \E ss \in NamedSceneLists(MaxScenes, {nRelax, nRelaxB, nRead}, {1, 4}),
       q \in SceneQueries, z \in {<<>>, qLounge, qKit} :
        Start("duplicate", ss, MkArgs(q, z, <<>>, OneEdit, FALSE))

\* both commands with at most one edit on the bridge with the equally named lights
InitTwinLights ==
    \E c \in {"duplicate", "modify"}, ss \in SceneLists(1), e \in EditArgs(1) :
        StartOn(c, TwinLights, BridgeGroups, ss, MkArgs(qRelax, <<>>, qLounge, e, FALSE))

\* both commands with every --zone / --room value on the bridge with the zone
\* "Combined Lounge"
InitNestedGroups ==
    \E c \in {"duplicate", "modify"}, ss \in SceneLists(MaxScenes - 1),
       q \in GroupQueries \cup {nCombinedLounge} :
        StartOn(c, BridgeLights, NestedGroups, ss, MkArgs(qRelax, q, q, OneEdit, FALSE))

\* both commands with at most one edit on the scene with the effect
InitEffects ==
    \E c \in {"duplicate", "modify"}, e \in EditArgs(1) :
        Start(c, <<EffectScene>>, MkArgs(qRelax, <<>>, qLounge, e, FALSE))

Init ==
    /\ \/ InitModifyEdits
       \/ InitModifyBulk
       \/ InitModifyResolve
       \/ InitDupEdits
       \/ InitDupResolve
       \/ InitDupNames
       \/ InitTwinLights
       \/ InitNestedGroups
       \/ InitEffects
    /\ proj_in = NoProj
    /\ proj_out = <<>>
    /\ name_in = NoName
    /\ name_out = <<>>
    /\ attempt = 0
    /\ posts = <<>>
    /\ token = None

----
\* The commands

inputVars == <<cmd, lights, all_groups, scenes, args>>
countVars == <<success_count, skip_count, fail_count>>

\* the id the bridge gives the next scene it creates
NewId == Len(scenes) + Len(calls) + 1

\* a create_scene call as the controller receives it, with what it returned
CreateCall(name, grid, acts, src, gtype, id) ==
    [op |-> "create_scene", name |-> name, group_rid |-> grid, actions |-> acts,
     auto_dynamic |-> src.auto_dynamic, speed |-> src.speed, group_rtype |-> gtype,
     palette |-> CleanPalette(src.palette), new_scene_id |-> id]

DeleteCall(scene_id, ok) == [op |-> "delete_scene", scene_id |-> scene_id, ok |-> ok]

\* duplicate-scene: connect, optional zone filter, source scene resolution,
\* and the clone of its actions
DupResolve ==
    /\ cmd = "duplicate" /\ pc = "start"
    /\ \E connected \in BOOLEAN :
        LET g == IF args.zone # <<>> THEN ResolveGroup(all_groups, args.zone)
                 ELSE [group |-> 0, err |-> "none"]
            candidates ==
                 IF args.zone # <<>>
                 THEN (IF g.err = "none"
                       THEN ScenesOfGroup(scenes, all_groups[g.group].id) ELSE <<>>)
                 ELSE [i \in 1..Len(scenes) |-> i]
            r == ResolveScene(scenes, candidates, args.source_scene)
        IN  IF ~connected
            THEN /\ pc' = "done" /\ error' = "connect"
                 /\ UNCHANGED <<cur, group_rid, new_actions, listed>>
            ELSE IF g.err # "none"
            THEN /\ pc' = "done" /\ error' = g.err
                 /\ UNCHANGED <<cur, group_rid, new_actions, listed>>
            ELSE IF r.err # "none"
            THEN /\ pc' = "done" /\ error' = r.err
                 /\ listed' = r.listed
                 /\ UNCHANGED <<cur, group_rid, new_actions>>
            ELSE /\ pc' = "turn_off"
                 /\ cur' = r.source
                 /\ group_rid' = scenes[r.source].group.rid
                 /\ new_actions' = scenes[r.source].actions
                 /\ UNCHANGED <<error, listed>>
    /\ UNCHANGED <<inputVars, countVars, target_scenes, light_operations, modified,
                   new_scene_id, calls, bridge>>
    /\ UNCHANGED <<projVars, nameVars, pairVars>>

\* one edit loop of duplicate-scene: on an error the command returns
DupLoop(here, r, next) ==
    /\ cmd = "duplicate" /\ pc = here
    /\ IF r.err # "none"
       THEN /\ pc' = "done" /\ error' = r.err /\ UNCHANGED new_actions
       ELSE /\ pc' = next /\ new_actions' = r.actions /\ UNCHANGED error
    /\ UNCHANGED <<inputVars, countVars, group_rid, target_scenes, light_operations,
                   cur, modified, new_scene_id, calls, bridge>>
    /\ UNCHANGED <<projVars, nameVars, pairVars, listed>>

DupTurnOff ==
    DupLoop("turn_off", DupTurnOffLoop(lights, args.turn_off, new_actions), "turn_on")

DupTurnOn ==
    DupLoop("turn_on", DupTurnOnLoop(lights, args.turn_on, new_actions), "brightness")

DupBrightness ==
    DupLoop("brightness", DupBrightnessLoop(lights, args.brightness, new_actions),
            "remove_light")

DupRemoveLight ==
    DupLoop("remove_light", DupRemoveLoop(lights, args.remove_light, new_actions),
            "confirm")

\* DupConfirm in which a declined prompt reports the cancellation and goes on
DupConfirm_NoReturn ==
    /\ cmd = "duplicate" /\ pc = "confirm"
    /\ \E answer \in BOOLEAN :
        IF args.yes \/ answer
        THEN pc' = "create" /\ UNCHANGED error
        ELSE pc' = "create" /\ error' = "cancelled"
    /\ UNCHANGED <<inputVars, countVars, group_rid, target_scenes, light_operations,
                   cur, new_actions, modified, new_scene_id, calls, bridge>>
    /\ UNCHANGED <<projVars, nameVars, pairVars, listed>>

\* duplicate-scene: the summary and the confirmation prompt
DupConfirm ==
    /\ cmd = "duplicate" /\ pc = "confirm"
    /\ \E answer \in BOOLEAN :
        IF args.yes \/ answer
        THEN pc' = "create" /\ UNCHANGED error
        ELSE pc' = "done" /\ error' = "cancelled"
    /\ UNCHANGED <<inputVars, countVars, group_rid, target_scenes, light_operations,
                   cur, new_actions, modified, new_scene_id, calls, bridge>>
    /\ UNCHANGED <<projVars, nameVars, pairVars, listed>>

\* duplicate-scene: the create_scene call and its report
DupCreate ==
    /\ cmd = "duplicate" /\ pc = "create"
    /\ \E created \in BOOLEAN :
        LET id == IF created THEN NewId ELSE 0 IN
        /\ calls' = Append(calls,
               CreateCall(args.new_name, group_rid, new_actions, scenes[cur],
                          scenes[cur].group.rtype, id))
        /\ new_scene_id' = id
        /\ bridge' = IF created THEN bridge \cup {id} ELSE bridge
        /\ error' = IF created THEN error ELSE "create_failed"
    /\ pc' = "done"
    /\ UNCHANGED <<inputVars, countVars, group_rid, target_scenes, light_operations,
                   cur, new_actions, modified>>
    /\ UNCHANGED <<projVars, nameVars, pairVars, listed>>

\* modify-scenes: connect, the --room lookup and the scenes of the group
ModResolve ==
    /\ cmd = "modify" /\ pc = "start"
    /\ \E connected \in BOOLEAN :
        LET g == ResolveGroup(all_groups, args.room)
            ts == IF g.err = "none"
                  THEN ScenesOfGroup(scenes, all_groups[g.group].id) ELSE <<>>
        IN  IF ~connected
            THEN /\ pc' = "done" /\ error' = "connect"
                 /\ UNCHANGED <<group_rid, target_scenes>>
            ELSE IF g.err # "none"
            THEN /\ pc' = "done" /\ error' = g.err
                 /\ UNCHANGED <<group_rid, target_scenes>>
            ELSE IF Len(ts) = 0
            THEN /\ pc' = "done" /\ error' = "no_scenes"
                 /\ UNCHANGED <<group_rid, target_scenes>>
            ELSE /\ pc' = "validate"
                 /\ group_rid' = all_groups[g.group].id
                 /\ target_scenes' = ts
                 /\ UNCHANGED error
    /\ UNCHANGED <<inputVars, countVars, light_operations, cur, new_actions, modified,
                   new_scene_id, calls, bridge>>
    /\ UNCHANGED <<projVars, nameVars, pairVars, listed>>

\* modify-scenes: "Validate all light names first"
ModValidate ==
    /\ cmd = "modify" /\ pc = "validate"
    /\ LET r == ValidateAll(lights, args) IN
        IF r.err # "none"
        THEN pc' = "done" /\ error' = r.err /\ UNCHANGED light_operations
        ELSE pc' = "confirm" /\ light_operations' = r.ops /\ UNCHANGED error
    /\ UNCHANGED <<inputVars, countVars, group_rid, target_scenes, cur, new_actions,
                   modified, new_scene_id, calls, bridge>>
    /\ UNCHANGED <<projVars, nameVars, pairVars, listed>>

\* ModConfirm without the return on an empty operation list
ModConfirm_NoReturn ==
    /\ cmd = "modify" /\ pc = "confirm"
    /\ \E answer \in BOOLEAN :
          IF args.yes \/ answer
          THEN pc' = "loop" /\ cur' = 1 /\ UNCHANGED error
          ELSE pc' = "done" /\ error' = "cancelled" /\ UNCHANGED cur
    /\ UNCHANGED <<inputVars, countVars, group_rid, target_scenes, light_operations,
                   new_actions, modified, new_scene_id, calls, bridge>>
    /\ UNCHANGED <<projVars, nameVars, pairVars, listed>>

\* modify-scenes: the summary of the operations (none: return) and the prompt
ModConfirm ==
    /\ cmd = "modify" /\ pc = "confirm"
    /\ IF light_operations = <<>>
       THEN pc' = "done" /\ error' = "no_modifications" /\ UNCHANGED cur
       ELSE \E answer \in BOOLEAN :
              IF args.yes \/ answer
              THEN pc' = "loop" /\ cur' = 1 /\ UNCHANGED error
              ELSE pc' = "done" /\ error' = "cancelled" /\ UNCHANGED cur
    /\ UNCHANGED <<inputVars, countVars, group_rid, target_scenes, light_operations,
                   new_actions, modified, new_scene_id, calls, bridge>>
    /\ UNCHANGED <<projVars, nameVars, pairVars, listed>>

\* ModScene that edits the actions of the snapshot instead of a deep copy
ModScene_InPlace ==
    /\ cmd = "modify" /\ pc = "loop" /\ cur <= Len(target_scenes)
    /\ LET scene == scenes[target_scenes[cur]]
           st == ApplyOps([actions |-> scene.actions, modified |-> FALSE],
                          light_operations)
       IN  /\ new_actions' = st.actions
           /\ scenes' = [scenes EXCEPT ![target_scenes[cur]].actions = st.actions]
           /\ modified' = st.modified
           /\ IF ~st.modified
              THEN /\ skip_count' = skip_count + 1
                   /\ cur' = cur + 1
                   /\ pc' = "loop"
              ELSE /\ pc' = "create"
                   /\ UNCHANGED <<skip_count, cur>>
    /\ UNCHANGED <<cmd, lights, all_groups, args, success_count, fail_count, error,
                   group_rid, target_scenes, light_operations, new_scene_id, calls,
                   bridge>>
    /\ UNCHANGED <<projVars, nameVars, pairVars, listed>>

\* modify-scenes: the operations applied to the copy of the next scene, and
\* the skip of a scene that no operation marked as modified
ModScene ==
    /\ cmd = "modify" /\ pc = "loop" /\ cur <= Len(target_scenes)
    /\ LET scene == scenes[target_scenes[cur]]
           st == ApplyOps([actions |-> scene.actions, modified |-> FALSE],
                          light_operations)
       IN  /\ new_actions' = st.actions
           /\ modified' = st.modified
           /\ IF ~st.modified
              THEN /\ skip_count' = skip_count + 1
                   /\ cur' = cur + 1
                   /\ pc' = "loop"
              ELSE /\ pc' = "create"
                   /\ UNCHANGED <<skip_count, cur>>
    /\ UNCHANGED <<inputVars, success_count, fail_count, error, group_rid,
                   target_scenes, light_operations, new_scene_id, calls, bridge>>
    /\ UNCHANGED <<projVars, nameVars, pairVars, listed>>

\* ModCreate that tries a failed create_scene once more
ModCreate_Retry ==
    /\ cmd = "modify" /\ pc = "create"
    /\ \E created \in BOOLEAN :
        LET scene == scenes[target_scenes[cur]]
            id == IF created THEN NewId ELSE 0
            first == calls = <<>> \/ calls[Len(calls)].op # "create_scene"
                        \/ calls[Len(calls)].new_scene_id # 0
        IN  /\ calls' = Append(calls,
                   CreateCall(scene.metadata.name, group_rid, new_actions, scene,
                              scene.group.rtype, id))
            /\ new_scene_id' = id
            /\ bridge' = IF created THEN bridge \cup {id} ELSE bridge
            /\ IF id # 0
               THEN pc' = "delete" /\ UNCHANGED <<fail_count, cur>>
               ELSE IF first
               THEN pc' = "create" /\ UNCHANGED <<fail_count, cur>>
               ELSE pc' = "loop" /\ fail_count' = fail_count + 1 /\ cur' = cur + 1
    /\ UNCHANGED <<inputVars, success_count, skip_count, error, group_rid,
                   target_scenes, light_operations, new_actions, modified>>
    /\ UNCHANGED <<projVars, nameVars, pairVars, listed>>

\* ModCreate that goes on to delete the original whatever create_scene returned
ModCreate_DeleteAnyway ==
    /\ cmd = "modify" /\ pc = "create"
    /\ \E created \in BOOLEAN :
        LET scene == scenes[target_scenes[cur]]
            id == IF created THEN NewId ELSE 0
        IN  /\ calls' = Append(calls,
                   CreateCall(scene.metadata.name, group_rid, new_actions, scene,
                              scene.group.rtype, id))
            /\ new_scene_id' = id
            /\ bridge' = IF created THEN bridge \cup {id} ELSE bridge
            /\ pc' = "delete" /\ UNCHANGED <<fail_count, cur>>
    /\ UNCHANGED <<inputVars, success_count, skip_count, error, group_rid,
                   target_scenes, light_operations, new_actions, modified>>
    /\ UNCHANGED <<projVars, nameVars, pairVars, listed>>

\* ModCreate that leaves a failed create_scene out of the summary
ModCreate_Uncounted ==
    /\ cmd = "modify" /\ pc = "create"
    /\ \E created \in BOOLEAN :
        LET scene == scenes[target_scenes[cur]]
            id == IF created THEN NewId ELSE 0
        IN  /\ calls' = Append(calls,
                   CreateCall(scene.metadata.name, group_rid, new_actions, scene,
                              scene.group.rtype, id))
            /\ new_scene_id' = id
            /\ bridge' = IF created THEN bridge \cup {id} ELSE bridge
            /\ IF id # 0
               THEN pc' = "delete" /\ UNCHANGED <<fail_count, cur>>
               ELSE pc' = "loop" /\ UNCHANGED fail_count /\ cur' = cur + 1
    /\ UNCHANGED <<inputVars, success_count, skip_count, error, group_rid,
                   target_scenes, light_operations, new_actions, modified>>
    /\ UNCHANGED <<projVars, nameVars, pairVars, listed>>

\* modify-scenes: "Recreate the scene": the create_scene call; a failure is counted
ModCreate ==
    /\ cmd = "modify" /\ pc = "create"
    /\ \E created \in BOOLEAN :
        LET scene == scenes[target_scenes[cur]]
            id == IF created THEN NewId ELSE 0
        IN  /\ calls' = Append(calls,
                   CreateCall(scene.metadata.name, group_rid, new_actions, scene,
                              scene.group.rtype, id))
            /\ new_scene_id' = id
            /\ bridge' = IF created THEN bridge \cup {id} ELSE bridge
            /\ IF id # 0
               THEN pc' = "delete" /\ UNCHANGED <<fail_count, cur>>
               ELSE pc' = "loop" /\ fail_count' = fail_count + 1 /\ cur' = cur + 1
    /\ UNCHANGED <<inputVars, success_count, skip_count, error, group_rid,
                   target_scenes, light_operations, new_actions, modified>>
    /\ UNCHANGED <<projVars, nameVars, pairVars, listed>>

\* ModDelete that leaves the original in place without calling delete_scene
ModDelete_Skip ==
    /\ cmd = "modify" /\ pc = "delete"
    /\ success_count' = success_count + 1
    /\ cur' = cur + 1
    /\ pc' = "loop"
    /\ UNCHANGED <<inputVars, skip_count, fail_count, error, group_rid, target_scenes,
                   light_operations, new_actions, modified, new_scene_id, calls, bridge>>
    /\ UNCHANGED <<projVars, nameVars, pairVars, listed>>

\* ModDelete that counts a failed delete as a failed scene
ModDelete_Downgrade ==
    /\ cmd = "modify" /\ pc = "delete"
    /\ \E deleted \in BOOLEAN :
        LET scene_id == scenes[target_scenes[cur]].id IN
        /\ calls' = Append(calls, DeleteCall(scene_id, deleted))
        /\ bridge' = IF deleted THEN bridge \ {scene_id} ELSE bridge
        /\ IF deleted
           THEN success_count' = success_count + 1 /\ UNCHANGED fail_count
           ELSE fail_count' = fail_count + 1 /\ UNCHANGED success_count
    /\ cur' = cur + 1
    /\ pc' = "loop"
    /\ UNCHANGED <<inputVars, skip_count, error, group_rid, target_scenes,
                   light_operations, new_actions, modified, new_scene_id>>
    /\ UNCHANGED <<projVars, nameVars, pairVars, listed>>

\* modify-scenes: "Delete old scene"; the scene counts as modified either way
ModDelete ==
    /\ cmd = "modify" /\ pc = "delete"
    /\ \E deleted \in BOOLEAN :
        LET scene_id == scenes[target_scenes[cur]].id IN
        /\ calls' = Append(calls, DeleteCall(scene_id, deleted))
        /\ bridge' = IF deleted THEN bridge \ {scene_id} ELSE bridge
        /\ success_count' = success_count + 1
    /\ cur' = cur + 1
    /\ pc' = "loop"
    /\ UNCHANGED <<inputVars, skip_count, fail_count, error, group_rid, target_scenes,
                   light_operations, new_actions, modified, new_scene_id>>
    /\ UNCHANGED <<projVars, nameVars, pairVars, listed>>

\* modify-scenes: the end of the loop and the summary
ModSummary ==
    /\ cmd = "modify" /\ pc = "loop" /\ cur > Len(target_scenes)
    /\ pc' = "done"
    /\ UNCHANGED <<inputVars, countVars, error, group_rid, target_scenes,
                   light_operations, cur, new_actions, modified, new_scene_id, calls,
                   bridge>>
    /\ UNCHANGED <<projVars, nameVars, pairVars, listed>>

Next ==
    \/ DupResolve
    \/ DupTurnOff
    \/ DupTurnOn
    \/ DupBrightness
    \/ DupRemoveLight
    \/ DupConfirm
    \/ DupCreate
    \/ ModResolve
    \/ ModValidate
    \/ ModConfirm
    \/ ModScene
    \/ ModCreate
    \/ ModDelete
    \/ ModSummary

Spec == Init /\ [][Next]_vars

----
\* models/zone_utils.py: filter_scene_actions_for_zone

\* action_lookup: the keys are the zone lights that have an action
ActionLookupKeys(actions, zone_set) ==
    { actions[i].target.rid : i \in DOMAIN actions } \cap zone_set

\* action_lookup[light_rid]: a later action overwrites an earlier one
ActionLookupAt(actions, light_rid) ==
    LET last == CHOOSE i \in DOMAIN actions :
                    /\ actions[i].target.rid = light_rid
                    /\ \A j \in DOMAIN actions :
                          actions[j].target.rid = light_rid => j <= i
    IN  actions[last]

\* FinalActionFor that copies only the on state of a source action
FinalActionFor_OnOnly(actions, zone_set, excluded_set, light_rid) ==
    IF light_rid \in excluded_set
    THEN [target |-> [rid |-> light_rid, rtype |-> "light"],
          action |-> [on |-> [on |-> FALSE]]]
    ELSE IF light_rid \in ActionLookupKeys(actions, zone_set)
    THEN [target |-> [rid |-> light_rid, rtype |-> "light"],
          action |-> [on |-> ActionLookupAt(actions, light_rid).action.on]]
    ELSE [target |-> [rid |-> light_rid, rtype |-> "light"],
          action |-> [on |-> [on |-> FALSE]]]

\* FinalActionFor where a source action wins over the exclusion
FinalActionFor_SourceFirst(actions, zone_set, excluded_set, light_rid) ==
    IF light_rid \in ActionLookupKeys(actions, zone_set)
    THEN ActionLookupAt(actions, light_rid)
    ELSE [target |-> [rid |-> light_rid, rtype |-> "light"],
          action |-> [on |-> [on |-> FALSE]]]

\* the entry the loop appends for one zone light
FinalActionFor(actions, zone_set, excluded_set, light_rid) ==
    IF light_rid \in excluded_set
    THEN [target |-> [rid |-> light_rid, rtype |-> "light"],
          action |-> [on |-> [on |-> FALSE]]]
    ELSE IF light_rid \in ActionLookupKeys(actions, zone_set)
    THEN ActionLookupAt(actions, light_rid)
    ELSE [target |-> [rid |-> light_rid, rtype |-> "light"],
          action |-> [on |-> [on |-> FALSE]]]

\* BuildFinal without the default for a zone light that has no source action
RECURSIVE BuildFinal_NoDefault(_, _, _, _, _)
BuildFinal_NoDefault(actions, zone_set, excluded_set, rest, final_actions) ==
    IF rest = <<>> THEN final_actions
    ELSE BuildFinal_NoDefault(actions, zone_set, excluded_set, Tail(rest),
             final_actions \o
                 (IF Head(rest) \in excluded_set
                       \/ Head(rest) \in ActionLookupKeys(actions, zone_set)
                  THEN <<FinalActionFor(actions, zone_set, excluded_set, Head(rest))>>
                  ELSE <<>>))

\* "Build final actions list for all zone lights"
RECURSIVE BuildFinal(_, _, _, _, _)
BuildFinal(actions, zone_set, excluded_set, rest, final_actions) ==
    IF rest = <<>> THEN final_actions
    ELSE BuildFinal(actions, zone_set, excluded_set, Tail(rest),
             final_actions \o
                 <<FinalActionFor(actions, zone_set, excluded_set, Head(rest))>>)

filter_scene_actions_for_zone(scene, zone_lights, exclude_lights) ==
    LET actions      == scene.actions
        excluded_set == { exclude_lights[i] : i \in DOMAIN exclude_lights }
        zone_set     == { zone_lights[i] : i \in DOMAIN zone_lights }
    IN  BuildFinal(actions, zone_set, excluded_set, zone_lights, <<>>)

\* the light ids, source action states and exclusion lists the projector is tried on
ProjLights == {"l1", "l2", "l3", "l4"}
ProjStates == {stColor, stCt}
ProjExcludes == {<<>>, <<"l1">>, <<"l2", "l1">>, <<"l4", "l4">>}

\* sequences over S of length at most n
SeqsUpTo(S, n) == UNION { [1..k -> S] : k \in 0..n }

\* duplicate-free sequences over S of length at most n
DistinctSeqs(S, n) ==
    { q \in SeqsUpTo(S, n) : \A i, j \in DOMAIN q : q[i] = q[j] => i = j }

InitProj ==
    /\ \E acts \in SeqsUpTo({ Act(l, st) : l \in ProjLights \ {"l4"}, st \in ProjStates },
                            MaxSrcActions),
          zl \in DistinctSeqs(ProjLights, MaxZoneLights),
          ex \in ProjExcludes :
         proj_in = [scene |-> [actions |-> acts], zone_lights |-> zl,
                    exclude_lights |-> ex]
    /\ proj_out = <<>>
    /\ cmd = "project"
    /\ lights = BridgeLights
    /\ all_groups = BridgeGroups
    /\ scenes = <<>>
    /\ args = MkArgs(<<>>, <<>>, <<>>, OneEdit, FALSE)
    /\ pc = "start"
    /\ error = "none"
    /\ group_rid = None
    /\ target_scenes = <<>>
    /\ light_operations = <<>>
    /\ cur = 0
    /\ new_actions = <<>>
    /\ modified = FALSE
    /\ success_count = 0
    /\ skip_count = 0
    /\ fail_count = 0
    /\ new_scene_id = 0
    /\ calls = <<>>
    /\ bridge = {}
    /\ listed = <<>>
    /\ name_in = NoName
    /\ name_out = <<>>
    /\ attempt = 0
    /\ posts = <<>>
    /\ token = None

\* one call of filter_scene_actions_for_zone
Project ==
    /\ cmd = "project" /\ pc = "start"
    /\ proj_out' = filter_scene_actions_for_zone(proj_in.scene, proj_in.zone_lights,
                                                 proj_in.exclude_lights)
    /\ pc' = "done"
    /\ UNCHANGED <<inputVars, countVars, error, group_rid, target_scenes,
                   light_operations, cur, new_actions, modified, new_scene_id, calls,
                   bridge, proj_in, listed>>
    /\ UNCHANGED <<nameVars, pairVars>>

NextProj == Project

SpecProj == InitProj /\ [][NextProj]_vars

\* the three entry points that are handed scene snapshots, side by side
InitSnap ==
    \/ /\ \/ InitModifyBulk
          \/ InitDupEdits
          \/ InitEffects
       /\ proj_in = NoProj
       /\ proj_out = <<>>
       /\ name_in = NoName
       /\ name_out = <<>>
       /\ attempt = 0
       /\ posts = <<>>
       /\ token = None
    \/ InitProj

NextSnap == Next \/ NextProj

SpecSnap == InitSnap /\ [][NextSnap]_vars

----
\* models/zone_utils.py: generate_zone_scene_name

MAX_SCENE_NAME_LENGTH == 32

\* str.replace(old, ""): every non-overlapping occurrence, scanning from the left
RECURSIVE Remove(_, _)
Remove(s, old) ==
    IF Len(s) < Len(old) THEN s
    ELSE IF SubSeq(s, 1, Len(old)) = old
         THEN Remove(SubSeq(s, Len(old) + 1, Len(s)), old)
         ELSE <<Head(s)>> \o Remove(Tail(s), old)

wCombined == <<"C", "o", "m", "b", "i", "n", "e", "d", " ">>
wcombined == <<"c", "o", "m", "b", "i", "n", "e", "d", " ">>

\* zone_name.replace("Combined ", "").replace("combined ", "")
zone_short(zone_name) == Remove(Remove(zone_name, wCombined), wcombined)

\* f"{original_name} ({zone_short})", with " -X" when excluded_lights is truthy
base_name(original_name, zone_name, excluded_lights) ==
    LET b == original_name \o <<" ", "(">> \o zone_short(zone_name) \o <<")">>
    IN  IF excluded_lights # <<>> THEN b \o <<" ", "-", "X">> ELSE b

\* generate_zone_scene_name that returns the composed name at full length
generate_zone_scene_name_Untruncated(original_name, zone_name, excluded_lights) ==
    base_name(original_name, zone_name, excluded_lights)

generate_zone_scene_name(original_name, zone_name, excluded_lights) ==
    LET b == base_name(original_name, zone_name, excluded_lights)
    IN  IF Len(b) > MAX_SCENE_NAME_LENGTH
        THEN SubSeq(b, 1, MAX_SCENE_NAME_LENGTH)
        ELSE b

\* the words zone names are made of, and the longest zone name in words
MaxZoneWords == 3
wCOMBINED == <<"C", "O", "M", "B", "I", "N", "E", "D", " ">>
wLounge   == nLounge
wZone     == <<" ", "Z", "o", "n", "e">>
wOld      == <<"O", "l", "d", " ">>
ZoneWords == {wCombined, wcombined, wCOMBINED, wLounge, wZone, wOld}

RECURSIVE Join(_)
Join(ws) == IF ws = <<>> THEN <<>> ELSE Head(ws) \o Join(Tail(ws))

ZoneNames == { Join(ws) : ws \in SeqsUpTo(ZoneWords, MaxZoneWords) \ {<<>>} }

nEveningGlow == <<"E", "v", "e", "n", "i", "n", "g", " ", "G", "l", "o", "w">>
nGlow        == <<"G", "l", "o", "w">>
\* 20 characters: with zone "Lounge" and exclusions the composed name has exactly 32
nEveningLong == nEveningGlow \o <<" ">> \o SubSeq(nEveningGlow, 1, 7)
OriginalNames == {nEveningGlow, nGlow, nEveningLong, <<>>}
ExcludedLists == {<<>>, <<"l2">>}

InitName ==
    /\ \E o \in OriginalNames, z \in ZoneNames, ex \in ExcludedLists :
         name_in = [original_name |-> o, zone_name |-> z, excluded_lights |-> ex]
    /\ name_out = <<>>
    /\ attempt = 0
    /\ posts = <<>>
    /\ token = None
    /\ proj_in = NoProj
    /\ proj_out = <<>>
    /\ cmd = "name"
    /\ lights = BridgeLights
    /\ all_groups = BridgeGroups
    /\ scenes = <<>>
    /\ args = MkArgs(<<>>, <<>>, <<>>, OneEdit, FALSE)
    /\ pc = "start"
    /\ error = "none"
    /\ group_rid = None
    /\ target_scenes = <<>>
    /\ light_operations = <<>>
    /\ cur = 0
    /\ new_actions = <<>>
    /\ modified = FALSE
    /\ success_count = 0
    /\ skip_count = 0
    /\ fail_count = 0
    /\ new_scene_id = 0
    /\ calls = <<>>
    /\ bridge = {}
    /\ listed = <<>>

\* one call of generate_zone_scene_name
Generate ==
    /\ cmd = "name" /\ pc = "start"
    /\ name_out' = generate_zone_scene_name(name_in.original_name, name_in.zone_name,
                                            name_in.excluded_lights)
    /\ pc' = "done"
    /\ UNCHANGED <<inputVars, countVars, error, group_rid, target_scenes,
                   light_operations, cur, new_actions, modified, new_scene_id, calls,
                   bridge, listed, name_in>>
    /\ UNCHANGED <<projVars, pairVars>>

NextName == Generate

SpecName == InitName /\ [][NextName]_vars

----
\* core/auth.py: create_user_via_link_button

max_attempts == 3

\* what one requests.post(...) followed by response.json() can give:
\*   success            [{"success": {"username": u}}]
\*   error_101          [{"error": {"type": 101, ...}}]  link button not pressed
\*   error_other        [{"error": {"type": t, ...}}] with t # 101
\*   timeout            requests.exceptions.Timeout
\*   request_exception  another requests.exceptions.RequestException
\*   value_error        response.json() raises ValueError
\*   key_error          [{"success": {...}}] without a username
\*   no_match           JSON that is not a non-empty list, or whose first element
\*                      has neither "success" nor "error"
\*   type_error         a list whose first element supports no "in" test
Usernames == {"u1", "u2"}
PostOutcomes ==
    { [kind |-> "success", username |-> u] : u \in Usernames }
        \cup { [kind |-> k, username |-> ""] :
                 k \in {"error_101", "error_other", "timeout", "request_exception",
                        "value_error", "key_error", "no_match", "type_error"} }

InitPair ==
    /\ attempt = 1
    /\ posts = <<>>
    /\ token = None
    /\ cmd = "pair"
    /\ pc = "start"
    /\ error = "none"
    /\ lights = <<>>
    /\ all_groups = <<>>
    /\ scenes = <<>>
    /\ args = MkArgs(<<>>, <<>>, <<>>, OneEdit, FALSE)
    /\ group_rid = None
    /\ target_scenes = <<>>
    /\ light_operations = <<>>
    /\ cur = 0
    /\ new_actions = <<>>
    /\ modified = FALSE
    /\ success_count = 0
    /\ skip_count = 0
    /\ fail_count = 0
    /\ new_scene_id = 0
    /\ calls = <<>>
    /\ bridge = {}
    /\ listed = <<>>
    /\ proj_in = NoProj
    /\ proj_out = <<>>
    /\ name_in = NoName
    /\ name_out = <<>>

\* the function returns: a token, or None
Return(t) == pc' = "done" /\ token' = t /\ UNCHANGED <<attempt, error>>

\* the loop body ends without a return: the next iteration, or the return None
\* after the loop
NextAttempt ==
    IF attempt < max_attempts
    THEN attempt' = attempt + 1 /\ UNCHANGED <<pc, token, error>>
    ELSE Return(None)

\* one iteration of the loop: the prompt, the POST and the handling of its outcome
PairPost ==
    /\ cmd = "pair" /\ pc = "start"
    /\ \E r \in PostOutcomes :
         /\ posts' = Append(posts, r)
         /\ CASE r.kind = "success" -> Return(r.username)
              [] r.kind = "error_101" -> NextAttempt
              [] r.kind = "timeout" -> NextAttempt
              [] r.kind = "no_match" -> NextAttempt
              [] r.kind = "type_error" ->
                    pc' = "done" /\ error' = "TypeError" /\ UNCHANGED <<attempt, token>>
              [] OTHER -> Return(None)
    /\ UNCHANGED <<inputVars, countVars, group_rid, target_scenes, light_operations,
                   cur, new_actions, modified, new_scene_id, calls, bridge, listed>>
    /\ UNCHANGED <<projVars, nameVars>>

NextPair == PairPost

SpecPair == InitPair /\ [][NextPair]_vars

----
\* Properties

Range(q) == { q[i] : i \in DOMAIN q }

\* the scene a command is working on
CurScene ==
    IF cmd = "duplicate" THEN scenes[cur] ELSE scenes[target_scenes[cur]]

\* the light ids of the room/zone with the given id
GroupLights(rid) ==
    UNION { Range(get_zone_lights(all_groups[g])) :
              g \in { h \in DOMAIN all_groups : all_groups[h].id = rid } }

\* the action list has an action for every light of the set
Covers(acts, ls) == \A l \in ls : \E i \in DOMAIN acts : acts[i].target.rid = l

ColourKeys == {"dimming", "color", "color_temperature"}

IsOff(a) == HasKey(a.action, "on") /\ a.action.on.on = FALSE

\* no off action of the list carries dimming, color or color_temperature
OffCleared(acts) ==
    \A i \in DOMAIN acts : IsOff(acts[i]) => DOMAIN acts[i].action \cap ColourKeys = {}

CreateCalls == { k \in DOMAIN calls : calls[k].op = "create_scene" }
DeleteCalls == { k \in DOMAIN calls : calls[k].op = "delete_scene" }
CreatedOk   == { k \in CreateCalls : calls[k].new_scene_id # 0 }
CreateFailed == { k \in CreateCalls : calls[k].new_scene_id = 0 }

\* C1: the action list passed to create_scene has an action for every light of
\* the scene's group whenever the source scene had one for every such light
C1_GroupCompleteness ==
    (cmd \in {"duplicate", "modify"} /\ pc = "create"
        /\ Covers(CurScene.actions, GroupLights(CurScene.group.rid)))
    => /\ CurScene.group.rid = group_rid
       /\ Covers(new_actions, GroupLights(group_rid))

\* C2: after the edits, no action that is off carries dimming, color or
\* color_temperature, given the source scene had no such off action
C2_OffImpliesCleared ==
    (cmd \in {"duplicate", "modify"} /\ pc = "create" /\ OffCleared(CurScene.actions))
    => OffCleared(new_actions)

\* the edit tokens that cannot be accepted on the lights Lamp, Lava and Desk:
\* unknown or ambiguous light names, brightness values without '=', not numeric,
\* or outside 0..100
BadNames == {qLa, qZz}
BadSpecs == {bLamp150, bNoEq, bBadNum, bLa10}
HasBadEdit ==
    /\ lights = BridgeLights
    /\ \/ \E n \in Range(args.turn_off) \cup Range(args.turn_on)
                     \cup Range(args.remove_light) : n \in BadNames
       \/ \E b \in Range(args.brightness) : b \in BadSpecs

EditErrors == {"light_ambiguous", "light_not_found", "brightness_format",
               "brightness_value", "brightness_range", "light_not_in_scene"}

\* C3: an invocation in which an edit fails issues no create_scene and no
\* delete_scene call
C3_ValidationBeforeMutation ==
    (cmd \in {"duplicate", "modify"} /\ (error \in EditErrors \/ HasBadEdit))
    => /\ calls = <<>>
       /\ pc \notin {"create", "delete", "loop"}
       /\ bridge = { scenes[i].id : i \in DOMAIN scenes }

\* a failing brightness value after an accepted edit has ended the command
C3_Witness ==
    /\ pc = "done" /\ error = "brightness_range"
    /\ args.turn_off = <<qLamp>> /\ args.brightness = <<bLamp150>>
    /\ calls = <<>>

\* C4: a delete_scene call directly follows the successful create_scene call of
\* the same scene; after a failed create no delete follows, the original is
\* still on the bridge, and failed counts the failed creates
C4_DeleteGatedOnCreate ==
    cmd = "modify" =>
    /\ \A k \in DeleteCalls :
          /\ k - 1 \in CreatedOk
          /\ calls[k - 1].name = scenes[calls[k].scene_id].metadata.name
          /\ \A j \in DeleteCalls : calls[j].scene_id = calls[k].scene_id => j = k
    /\ \A k \in CreateFailed : k + 1 \in DOMAIN calls => k + 1 \in CreateCalls
    /\ pc = "delete" <=> (calls # <<>> /\ Len(calls) \in CreatedOk)
    /\ fail_count = Cardinality(CreateFailed)
    /\ \A i \in DOMAIN scenes :
          scenes[i].id \notin bridge
              => \E k \in DeleteCalls : calls[k].scene_id = scenes[i].id /\ calls[k].ok

\* a create failed for the second scene after the first was replaced
C4_Witness ==
    /\ cmd = "modify" /\ pc = "done" /\ Len(calls) = 3
    /\ 1 \in CreatedOk /\ 2 \in DeleteCalls /\ 3 \in CreateFailed
    /\ fail_count = 1 /\ scenes[target_scenes[2]].id \in bridge

\* C5: succeeded counts exactly the scenes whose create_scene returned an id,
\* whatever delete_scene returned, and failed counts only failed creates
C5_DeleteFailureStillSuccess ==
    (cmd = "modify" /\ pc \in {"loop", "create", "done"})
    => /\ success_count = Cardinality(CreatedOk)
       /\ success_count = Cardinality(DeleteCalls)
       /\ fail_count = Cardinality(CreateCalls) - Cardinality(CreatedOk)

\* a delete failed and its scene is counted as succeeded
C5_Witness ==
    /\ cmd = "modify" /\ pc = "done" /\ Len(calls) = 2
    /\ 2 \in DeleteCalls /\ ~calls[2].ok
    /\ success_count = 1 /\ fail_count = 0

\* C6: a scene whose merged action list equals its original action list is
\* skipped: it never reaches create_scene
C6_UnmodifiedSkipped ==
    (cmd = "modify" /\ pc = "create") => new_actions # CurScene.actions

NoEdits ==
    /\ args.turn_off = <<>> /\ args.turn_on = <<>>
    /\ args.brightness = <<>> /\ args.remove_light = <<>>

\* C7 as stated: with an empty edit list every scene of the group is reported
\* as skipped
C7_EmptyEditsAllSkipped ==
    (cmd = "modify" /\ NoEdits /\ pc = "done" /\ target_scenes # <<>>)
    => /\ skip_count = Len(target_scenes)
       /\ success_count = 0
       /\ fail_count = 0

\* no operation of the run finds an action to change in any scene of the group
NothingToChange ==
    \A o \in DOMAIN light_operations :
        /\ light_operations[o][1] \in {"remove", "brightness"}
        /\ \A t \in DOMAIN target_scenes :
              find_action_index(scenes[target_scenes[t]].actions,
                                light_operations[o][2]) = 0

\* C7 amended: with an empty edit list modify-scenes returns before the loop
\* (no scene processed, no call, all counters 0); every scene is reported as
\* skipped when the edit list is not empty and none of its edits finds an
\* action to change
C7_EmptyEditsReturnEarly ==
    /\ (cmd = "modify" /\ NoEdits)
         => /\ pc \in {"start", "validate", "confirm", "done"}
            /\ calls = <<>>
            /\ success_count = 0 /\ skip_count = 0 /\ fail_count = 0
            /\ (pc = "done" => error \in {"connect", "no_scenes", "no_modifications"})
    /\ (cmd = "modify" /\ pc = "done" /\ error = "none" /\ NothingToChange)
         => /\ skip_count = Len(target_scenes)
            /\ success_count = 0 /\ fail_count = 0
            /\ calls = <<>>

\* an empty edit list on a group with scenes has ended the command
C7_Witness ==
    /\ cmd = "modify" /\ NoEdits /\ pc = "done" /\ Len(target_scenes) >= 2
    /\ error = "no_modifications" /\ skip_count = 0

\* three scenes and one set-brightness whose light has an action in the first
\* and third scene and none in the second
C8_Case ==
    /\ cmd = "modify" /\ pc = "done" /\ error = "none"
    /\ Len(target_scenes) = 3 /\ Len(light_operations) = 1
    /\ light_operations[1][1] = "brightness"
    /\ find_action_index(scenes[target_scenes[1]].actions, light_operations[1][2]) # 0
    /\ find_action_index(scenes[target_scenes[2]].actions, light_operations[1][2]) = 0
    /\ find_action_index(scenes[target_scenes[3]].actions, light_operations[1][2]) # 0

C9_ProjectorComplete ==
    (cmd = "project" /\ pc = "done")
    => /\ Len(proj_out) = Len(proj_in.zone_lights)
       /\ \A i \in DOMAIN proj_out : proj_out[i].target.rid = proj_in.zone_lights[i]

\* a projection onto three lights of a source with two actions for one light
C9_Witness ==
    /\ cmd = "project" /\ pc = "done"
    /\ Len(proj_in.zone_lights) = 3 /\ Len(proj_out) = 3
    /\ Len(proj_in.scene.actions) = 2
    /\ proj_in.scene.actions[1].target.rid = proj_in.scene.actions[2].target.rid
    /\ proj_in.scene.actions[1] # proj_in.scene.actions[2]
    /\ proj_in.scene.actions[1].target.rid \in Range(proj_in.zone_lights)

\* C10: the projected action of an excluded group light is exactly the off action
C10_ExclusionPrecedence ==
    (cmd = "project" /\ pc = "done")
    => \A i \in DOMAIN proj_in.zone_lights :
          proj_in.zone_lights[i] \in Range(proj_in.exclude_lights)
          => /\ i \in DOMAIN proj_out
             /\ proj_out[i] = [target |-> [rid |-> proj_in.zone_lights[i],
                                          rtype |-> "light"],
                               action |-> [on |-> [on |-> FALSE]]]

\* an excluded light that is on with a colour in the source scene
C10_Witness ==
    /\ cmd = "project" /\ pc = "done"
    /\ \E i \in DOMAIN proj_in.zone_lights, k \in DOMAIN proj_in.scene.actions :
          /\ proj_in.zone_lights[i] \in Range(proj_in.exclude_lights)
          /\ proj_in.scene.actions[k].target.rid = proj_in.zone_lights[i]
          /\ proj_in.scene.actions[k].action = stColor
          /\ proj_out[i].action = [on |-> [on |-> FALSE]]

\* the source actions that target the light
SourceActionsFor(light_rid) ==
    { proj_in.scene.actions[k] :
        k \in { j \in DOMAIN proj_in.scene.actions :
                  proj_in.scene.actions[j].target.rid = light_rid } }

\* C11: a group light that is not excluded gets the source scene's action for
\* it unchanged when there is one and the minimal off action otherwise; no
\* projected action targets a light outside the group; every input has a result
C11_ProjectorPerLight ==
    /\ cmd = "project" => pc \in {"start", "done"}
    /\ (cmd = "project" /\ pc = "done")
       => /\ \A i \in DOMAIN proj_in.zone_lights :
                LET l == proj_in.zone_lights[i] IN
                l \notin Range(proj_in.exclude_lights)
                => /\ i \in DOMAIN proj_out
                   /\ IF SourceActionsFor(l) # {}
                      THEN proj_out[i] \in SourceActionsFor(l)
                      ELSE proj_out[i] = [target |-> [rid |-> l, rtype |-> "light"],
                                          action |-> [on |-> [on |-> FALSE]]]
          /\ \A i \in DOMAIN proj_out :
                proj_out[i].target.rid \in Range(proj_in.zone_lights)

\* a source with a coloured action for a group light and an action for a light
\* outside the group, projected with no exclusion
C11_Witness ==
    /\ cmd = "project" /\ pc = "done"
    /\ proj_in.exclude_lights = <<>>
    /\ Len(proj_in.scene.actions) = 2 /\ Len(proj_in.zone_lights) = 2
    /\ proj_in.scene.actions[1].target.rid = proj_in.zone_lights[2]
    /\ proj_in.scene.actions[1].action = stColor
    /\ proj_in.scene.actions[2].target.rid \notin Range(proj_in.zone_lights)
    /\ proj_out[2] = proj_in.scene.actions[1]
    /\ proj_out[1].action = [on |-> [on |-> FALSE]]

\* the name written out in the docstring's convention for ("Evening Glow",
\* "Combined Lounge Zone", exclusions)
nEveningGlowLoungeZoneX ==
    <<"E", "v", "e", "n", "i", "n", "g", " ", "G", "l", "o", "w", " ", "(",
      "L", "o", "u", "n", "g", "e", " ", "Z", "o", "n", "e", ")", " ", "-", "X">>

\* the composed name before truncation
Composed ==
    name_in.original_name \o <<" ", "(">> \o zone_short(name_in.zone_name) \o <<")">>
        \o (IF name_in.excluded_lights # <<>> THEN <<" ", "-", "X">> ELSE <<>>)

PrefixStripped(zone_name) ==
    IF Len(zone_name) >= Len(wcombined)
          /\ Lower(SubSeq(zone_name, 1, Len(wcombined))) = wcombined
    THEN SubSeq(zone_name, Len(wcombined) + 1, Len(zone_name))
    ELSE zone_name

\* C13: the zone name enters the generated name with "Combined " stripped only
\* where it is a prefix, in any casing, and with later occurrences left in place
C13_PrefixShortening ==
    (cmd = "name" /\ pc = "done")
    => LET b == name_in.original_name \o <<" ", "(">>
                    \o PrefixStripped(name_in.zone_name) \o <<")">>
                    \o (IF name_in.excluded_lights # <<>> THEN <<" ", "-", "X">>
                        ELSE <<>>)
       IN  name_out = SubSeq(b, 1, IF Len(b) > 32 THEN 32 ELSE Len(b))

\* duplicate-scene got past connecting and past the --zone lookup
SceneLookupDone ==
    /\ cmd = "duplicate" /\ pc # "start"
    /\ error \notin {"connect", "group_not_found", "group_ambiguous"}

\* the scenes in scope: all of them, or those bound to the group --zone names
ScopeCandidates ==
    IF args.zone = <<>> THEN DOMAIN scenes
    ELSE { i \in DOMAIN scenes :
             \E g \in DOMAIN all_groups :
                /\ Contains(Lower(args.zone), Lower(all_groups[g].metadata.name))
                /\ scenes[i].group.rid = all_groups[g].id }

\* the scenes in scope whose name equals, or contains, the query
ExactScenes ==
    { i \in ScopeCandidates : Lower(scenes[i].metadata.name) = Lower(args.source_scene) }
PartialScenes ==
    { i \in ScopeCandidates :
        Contains(Lower(args.source_scene), Lower(scenes[i].metadata.name)) }

\* C14: a single exact match among the scenes in scope is the source scene,
\* whatever else contains the query; with an exact match present the substring
\* matches decide nothing
C14_ExactMatchWins ==
    SceneLookupDone
    => /\ Cardinality(ExactScenes) = 1
          => /\ cur \in ExactScenes
             /\ error \notin {"scene_ambiguous", "scene_not_found"}
             /\ listed = <<>>
       /\ ExactScenes # {}
          => /\ cur \in ExactScenes \cup {0}
             /\ Range(listed) \subseteq ExactScenes

C14_Witness ==
    /\ SceneLookupDone /\ pc = "turn_off"
    /\ Cardinality(ExactScenes) = 1
    /\ Cardinality(PartialScenes \ ExactScenes) >= 1
    /\ cur \in ExactScenes

\* the bridge has the scenes "Relax" and "Relax Bright", in that order, and the
\* command looked the query up among all of them
RelaxExample(q) ==
    /\ cmd = "duplicate" /\ pc # "start" /\ error # "connect"
    /\ args.zone = <<>>
    /\ args.source_scene = q
    /\ [i \in DOMAIN scenes |-> scenes[i].metadata.name] = <<nRelax, nRelaxB>>

\* C15 as stated: query "relax" on ["Relax", "Relax Bright"] is ambiguous and
\* lists both names
C15_RelaxAmbiguous ==
    RelaxExample(qRelax)
    => /\ error = "scene_ambiguous"
       /\ listed = <<1, 2>>
       /\ cur = 0

\* C15 amended: query "relax" on ["Relax", "Relax Bright"] always resolves to
\* "Relax", its one exact match; query "Rel", which equals no name, is always
\* ambiguous and lists both names
C15_RelaxExactUnique ==
    /\ RelaxExample(qRelax)
       => /\ cur = 1
          /\ error \notin {"scene_ambiguous", "scene_not_found"}
          /\ listed = <<>>
    /\ RelaxExample(qRel)
       => /\ error = "scene_ambiguous"
          /\ listed = <<1, 2>>
          /\ cur = 0
          /\ pc = "done"

C15_Witness ==
    /\ RelaxExample(qRelax)
    /\ pc = "turn_off"
    /\ cur = 1

\* the scenes that match at the step that decides the lookup
DecidingScenes == IF ExactScenes # {} THEN ExactScenes ELSE PartialScenes

\* C16: when several scenes in scope match at the deciding step, duplicate-scene
\* ends with no source scene and no create_scene call, having listed every one
\* of them
C16_AmbiguousSceneNotPicked ==
    (SceneLookupDone /\ Cardinality(DecidingScenes) > 1)
    => /\ pc = "done"
       /\ error = "scene_ambiguous"
       /\ cur = 0
       /\ calls = <<>>
       /\ Range(listed) = DecidingScenes
       /\ Len(listed) = Cardinality(DecidingScenes)

C16_Witness ==
    /\ SceneLookupDone
    /\ Cardinality(ExactScenes) > 1
    /\ PartialScenes # ExactScenes
    /\ Range(listed) = ExactScenes

\* the light names the edit options of the invocation give
EditLightNames ==
    Range(args.turn_off) \cup Range(args.turn_on) \cup Range(args.remove_light)
        \cup { ParseBrightness(b).name :
                 b \in { x \in Range(args.brightness) : FirstEq(x, 1) # 0 } }

\* two or more lights carry the queried name, or none does and two or more
\* contain it
AmbiguousLight(q) ==
    LET exact   == { i \in DOMAIN lights : Lower(lights[i].metadata.name) = Lower(q) }
        partial == { i \in DOMAIN lights :
                       Contains(Lower(q), Lower(lights[i].metadata.name)) }
    IN  \/ Cardinality(exact) >= 2
        \/ exact = {} /\ Cardinality(partial) >= 2

\* C17: an invocation with an edit whose light name is ambiguous among the
\* lights never gets past its edits: it reaches neither the confirmation nor a
\* create_scene call
C17_AmbiguousLightNotPicked ==
    (cmd \in {"duplicate", "modify"} /\ \E q \in EditLightNames : AmbiguousLight(q))
    => /\ calls = <<>>
       /\ pc \notin {"confirm", "create", "delete", "loop"}
       /\ pc = "done" => error # "none"

\* the --zone (duplicate-scene) or --room (modify-scenes) value of the invocation
GroupQuery == IF cmd = "duplicate" THEN args.zone ELSE args.room

\* the rooms/zones whose name equals the query
ExactGroups ==
    { g \in DOMAIN all_groups : Lower(all_groups[g].metadata.name) = Lower(GroupQuery) }

\* C18: a --zone / --room value that equals exactly one room/zone name resolves
\* to that group, even when other group names contain it
C18_GroupExactFirst ==
    (/\ cmd \in {"duplicate", "modify"} /\ pc # "start" /\ error # "connect"
     /\ GroupQuery # <<>>
     /\ Cardinality(ExactGroups) = 1)
    => /\ error \notin {"group_not_found", "group_ambiguous"}
       /\ (cmd = "modify" /\ error # "no_scenes")
          => \E g \in ExactGroups : group_rid = all_groups[g].id
       /\ (cmd = "duplicate" /\ cur # 0)
          => \E g \in ExactGroups : scenes[cur].group.rid = all_groups[g].id

\* the invocation gives --turn-off options and no other edit, and the edits of
\* the current scene are done
OnlyTurnOffApplied ==
    /\ args.turn_off # <<>>
    /\ args.turn_on = <<>> /\ args.brightness = <<>> /\ args.remove_light = <<>>
    /\ \/ /\ cmd = "duplicate" /\ error = "none"
          /\ pc \in {"turn_on", "brightness", "remove_light", "confirm", "create"}
       \/ cmd = "modify" /\ pc \in {"create", "delete"}

\* the lights a name stands for when it stands for exactly one
LightsNamed(q) ==
    LET exact   == { i \in DOMAIN lights : Lower(lights[i].metadata.name) = Lower(q) }
        partial == { i \in DOMAIN lights :
                       Contains(Lower(q), Lower(lights[i].metadata.name)) }
        hit     == IF exact # {} THEN exact ELSE partial
    IN  IF Cardinality(hit) = 1 THEN { lights[i].id : i \in hit } ELSE {}

\* positions of the actions for a light
ActionsOf(acts, l) == { i \in DOMAIN acts : acts[i].target.rid = l }

\* the lights turned off by the invocation
TurnedOff == UNION { LightsNamed(q) : q \in Range(args.turn_off) }

\* a turned-off light without a source action got exactly the minimal off action,
\* appended after the source actions
OffAppended(l) ==
    ActionsOf(CurScene.actions, l) = {}
    => \E i \in DOMAIN new_actions :
          /\ i > Len(CurScene.actions)
          /\ ActionsOf(new_actions, l) = {i}
          /\ new_actions[i] = [target |-> [rid |-> l, rtype |-> "light"],
                               action |-> [on |-> [on |-> FALSE]]]

\* C19: turning off a light whose action has dimming, color or color_temperature
\* leaves exactly {on: {on: false}} as its state, whatever other keys the action
\* had; a light without an action gets the minimal off action appended
C19_OffLeavesOnlyOn ==
    OnlyTurnOffApplied
    => \A l \in TurnedOff :
          /\ OffAppended(l)
          /\ \A i \in ActionsOf(CurScene.actions, l) :
                (ColourKeys \cap DOMAIN CurScene.actions[i].action # {}
                 /\ \A j \in ActionsOf(CurScene.actions, l) : i <= j)
                => new_actions[i].action = [on |-> [on |-> FALSE]]

\* the palette is the original's with only the effects field removed
EffectsStripped(palette, original) ==
    IF original = NoPalette THEN palette = NoPalette
    ELSE /\ DOMAIN palette = (DOMAIN original) \ {"effects"}
         /\ \A f \in DOMAIN palette : palette[f] = original[f]

\* C20: every create_scene call of modify-scenes passes the name, auto_dynamic
\* and speed of the scene it rewrites, that scene's palette with only the effects
\* field removed, and the id of the group being rewritten
C20_RecreatePreservesSettings ==
    [][(cmd = "modify" /\ pc = "create")
       => LET scene == scenes[target_scenes[cur]]
              call  == calls'[Len(calls')]
          IN  /\ Len(calls') = Len(calls) + 1
              /\ call.op = "create_scene"
              /\ call.name = scene.metadata.name
              /\ call.auto_dynamic = scene.auto_dynamic
              /\ call.speed = scene.speed
              /\ EffectsStripped(call.palette, scene.palette)
              /\ call.group_rid = group_rid
              /\ call.group_rid = scene.group.rid]_vars

C20_Witness ==
    /\ cmd = "modify" /\ pc = "delete"
    /\ "effects" \in DOMAIN scenes[target_scenes[cur]].palette
    /\ calls[Len(calls)].op = "create_scene"
    /\ DOMAIN calls[Len(calls)].palette = {"color", "effects_v2"}
    /\ calls[Len(calls)].name = scenes[target_scenes[cur]].metadata.name

\* the lights named by the operations of one kind
OpLights(kind) ==
    { light_operations[i][2] :
        i \in { j \in DOMAIN light_operations : light_operations[j][1] = kind } }

\* modify-scenes has applied the operations to the copy of the current scene and
\* is about to recreate it, or has just done so
BulkEdited == cmd = "modify" /\ pc \in {"create", "delete"}

\* no action of the current scene was taken out of the list or moved
NoActionRemoved ==
    /\ Len(new_actions) >= Len(CurScene.actions)
    /\ \A i \in DOMAIN CurScene.actions :
          new_actions[i].target = CurScene.actions[i].target

EditLights(kind) ==
    IF cmd = "modify" THEN OpLights(kind)
    ELSE IF kind = "brightness"
    THEN UNION { LightsNamed(ParseBrightness(b).name) :
                   b \in { x \in Range(args.brightness) : FirstEq(x, 1) # 0 } }
    ELSE UNION { LightsNamed(q) :
                   q \in Range(IF kind = "turn_off" THEN args.turn_off
                                ELSE IF kind = "turn_on" THEN args.turn_on
                                ELSE args.remove_light) }

\* duplicate-scene has applied all its edits
DupEdited == cmd = "duplicate" /\ error = "none" /\ pc \in {"confirm", "create"}

\* some action of the working list for the light satisfies P
HasOn(l, v) ==
    \E i \in ActionsOf(new_actions, l) :
        HasKey(new_actions[i].action, "on") /\ new_actions[i].action.on.on = v

\* what the order turn-off, turn-on, brightness, remove leaves in duplicate-scene
SingleOrder ==
    DupEdited
    => \A l \in { lights[i].id : i \in DOMAIN lights } :
          /\ l \in EditLights("remove_light") => ActionsOf(new_actions, l) = {}
          /\ (l \in EditLights("turn_off") \cap EditLights("turn_on")
                 /\ l \notin EditLights("remove_light"))
             => HasOn(l, TRUE)
          /\ (l \in EditLights("turn_off") \cap EditLights("brightness")
                 /\ l \notin EditLights("turn_on") \cup EditLights("remove_light"))
             => /\ HasOn(l, FALSE)
                /\ \A i \in ActionsOf(new_actions, l) :
                      HasKey(new_actions[i].action, "dimming")

\* C22 as stated: duplicate-scene and modify-scenes both apply turn-off, then
\* turn-on, then brightness, then remove, so in modify-scenes a light named by a
\* remove edit ends with exactly {on: {on: false}} whatever else names it
C22_RemoveAppliedLast ==
    /\ SingleOrder
    /\ BulkEdited
       => \A l \in OpLights("remove") :
             \A i \in ActionsOf(new_actions, l) :
                new_actions[i].action = [on |-> [on |-> FALSE]]

\* C22 amended: duplicate-scene applies turn-off, turn-on, brightness, remove;
\* modify-scenes applies remove, turn-off, turn-on, brightness, so there a light
\* named by a turn-on edit ends on even when a remove or turn-off edit names it,
\* and a brightness edit adds dimming to the state a remove or turn-off left
C22_OrderPerCommand ==
    /\ SingleOrder
    /\ BulkEdited
       => \A l \in { lights[i].id : i \in DOMAIN lights } :
             /\ l \in OpLights("turn_on") => HasOn(l, TRUE)
             /\ (l \in OpLights("turn_off") /\ l \notin OpLights("turn_on"))
                => HasOn(l, FALSE)
             /\ (l \in OpLights("remove") /\ l \notin OpLights("turn_on")
                    /\ ActionsOf(CurScene.actions, l) # {})
                => HasOn(l, FALSE)
             /\ (l \in OpLights("brightness")
                    /\ l \in OpLights("remove") \cup OpLights("turn_off"))
                => \A i \in ActionsOf(new_actions, l) :
                      HasKey(new_actions[i].action, "dimming")

C22_Witness ==
    /\ BulkEdited
    /\ "l1" \in OpLights("remove") \cap OpLights("turn_on")
    /\ CurScene.actions[1] = Act("l1", stColor)
    /\ new_actions[1].action = [on |-> [on |-> TRUE]]

\* position in target_scenes of the scene with the id
TargetPos(id) == CHOOSE i \in DOMAIN target_scenes : scenes[target_scenes[i]].id = id

\* the delete calls so far are for scenes already passed, in input order, one each
DeletesInOrder ==
    /\ \A k \in DeleteCalls :
          /\ \E i \in DOMAIN target_scenes : scenes[target_scenes[i]].id = calls[k].scene_id
          /\ TargetPos(calls[k].scene_id) < cur
    /\ \A j, k \in DeleteCalls :
          j < k => TargetPos(calls[j].scene_id) < TargetPos(calls[k].scene_id)

\* a step of modify-scenes that issues a call issues one call, for the scene in
\* turn; a failed create and every delete move on to the next scene
OneCallForCurrentScene ==
    (cmd = "modify" /\ calls' # calls)
    => LET scene == scenes[target_scenes[cur]]
           call  == calls'[Len(calls')]
       IN  /\ calls' = Append(calls, call)
           /\ IF call.op = "create_scene"
              THEN /\ call.name = scene.metadata.name
                   /\ call.actions = new_actions
                   /\ calls = <<>> \/ calls[Len(calls)].op = "delete_scene"
                         \/ calls[Len(calls)].new_scene_id = 0
                   /\ IF call.new_scene_id = 0
                      THEN cur' = cur + 1 /\ pc' = "loop"
                      ELSE cur' = cur /\ pc' = "delete"
              ELSE /\ call.scene_id = scene.id
                   /\ calls # <<>> /\ Len(calls) \in CreatedOk
                   /\ cur' = cur + 1 /\ pc' = "loop"

\* C23: the calls of a bulk rewrite follow the input order of the scenes, one
\* create_scene and at most one delete_scene per modified scene, both before any
\* call for the next scene, and no call is repeated after a failure
C23_SequentialNoRetry ==
    /\ [](cmd = "modify" => DeletesInOrder /\ Cardinality(CreateCalls) <= cur)
    /\ [][cmd = "modify" => cur' >= cur]_vars
    /\ [][OneCallForCurrentScene]_vars

\* a failed create for the first scene was followed by the rewrite of the second
C23_Witness ==
    /\ cmd = "modify" /\ pc = "done" /\ Len(calls) = 3
    /\ 1 \in CreateFailed /\ 2 \in CreatedOk /\ 3 \in DeleteCalls
    /\ calls[3].scene_id = scenes[target_scenes[2]].id

\* C24: no step of duplicate-scene, modify-scenes or filter_scene_actions_for_zone
\* changes a scene snapshot it was handed: actions and palette stay as fetched
C24_SnapshotsUnchanged ==
    [][/\ scenes' = scenes
       /\ proj_in' = proj_in]_vars

\* a scene was recreated from edited actions and a stripped palette while its
\* snapshot still holds the original actions and palette.effects
C24_Witness ==
    /\ cmd = "modify" /\ pc = "delete"
    /\ "effects" \in DOMAIN CurScene.palette
    /\ "effects" \notin DOMAIN calls[Len(calls)].palette
    /\ calls[Len(calls)].actions # CurScene.actions
    /\ CurScene.actions = SceneTemplates[1].actions

\* C25: modify-scenes issues no create_scene or delete_scene for a scene in which
\* a set-brightness edit targets a light that has no action there (and that no
\* turn-off or turn-on edit of the run adds), whatever the other edits change
C25_BulkBrightnessExcludesScene ==
    BulkEdited
    => \A l \in OpLights("brightness") :
          \/ ActionsOf(CurScene.actions, l) # {}
          \/ l \in OpLights("turn_on") \cup OpLights("turn_off")

\* every light name of the invocation stands for exactly one light
AllResolved == \A q \in EditLightNames : LightsNamed(q) # {}

\* the light has no action when the brightness edits of duplicate-scene run: none
\* in the source scene and none added by a turn-off or turn-on edit
MissingAtBrightness(l) ==
    /\ ActionsOf(scenes[cur].actions, l) = {}
    /\ l \notin EditLights("turn_off") \cup EditLights("turn_on")

\* the value of the last --brightness option for the light
LastBrightness(l) ==
    LET for == { i \in DOMAIN args.brightness :
                   LightsNamed(ParseBrightness(args.brightness[i]).name) = {l} }
        last == CHOOSE i \in for : \A j \in for : j <= i
    IN  ParseBrightness(args.brightness[last]).val

OriginalsGone ==
    { i \in DOMAIN target_scenes : scenes[target_scenes[i]].id \notin bridge }

\* how many originals are on the bridge together with their replacement: every
\* successful create made a replacement, every original gone had one
CoexistCount == Cardinality(CreatedOk) - Cardinality(OriginalsGone)

FailedDeletes == { k \in DeleteCalls : ~calls[k].ok }

\* C27: while every delete_scene call succeeds, at most one original is on the
\* bridge together with its replacement, and none after the run; after any run
\* the originals that coexist with their replacement are as many as the failed
\* delete calls
C27_CoexistenceBounded ==
    cmd = "modify"
    => /\ \A k \in CreatedOk : calls[k].new_scene_id \in bridge
       /\ FailedDeletes = {}
          => /\ CoexistCount <= 1
             /\ pc = "done" => CoexistCount = 0
       /\ pc = "done" => CoexistCount = Cardinality(FailedDeletes)

\* of two rewritten scenes the second could not be deleted
C27_Witness ==
    /\ cmd = "modify" /\ pc = "done" /\ Len(calls) = 4
    /\ calls[2].op = "delete_scene" /\ calls[2].ok
    /\ calls[4].op = "delete_scene" /\ ~calls[4].ok
    /\ CoexistCount = 1

\* C28: one call issues at most 3 POSTs; a POST is followed by another only after
\* a link-button-not-pressed error or a timeout; the token of the first success
\* is returned, and no token after the third failure or any other outcome
C28_PairingBounded ==
    cmd = "pair"
    => /\ Len(posts) <= 3
       /\ \A i \in 1..(Len(posts) - 1) : posts[i].kind \in {"error_101", "timeout"}
       /\ pc = "done"
          => LET last == posts[Len(posts)] IN
             /\ token = IF last.kind = "success" THEN last.username ELSE None
             /\ last.kind \in {"error_101", "timeout"} => Len(posts) = 3

Counted == success_count + skip_count + fail_count
InBulkLoop == cmd = "modify" /\ pc \in {"loop", "create", "delete"}
BulkFinished == cmd = "modify" /\ pc = "done" /\ error = "none"

\* each scene that is left behind adds one to exactly one counter
OneCounterPerScene ==
    InBulkLoop /\ cur' # cur
    => /\ cur' = cur + 1
       /\ Counted' = Counted + 1
       /\ success_count' \in {success_count, success_count + 1}
       /\ skip_count' \in {skip_count, skip_count + 1}
       /\ fail_count' \in {fail_count, fail_count + 1}

\* C29: in the bulk rewriter succeeded + skipped + failed is the number of scenes
\* processed so far and each scene increments exactly one counter; at the end
\* the sum is the number of scenes of the group and succeeded + failed is the
\* number of create_scene calls
C29_CountsPartition ==
    /\ [](InBulkLoop => Counted = cur - 1)
    /\ [](BulkFinished
           => /\ Counted = Len(target_scenes)
              /\ success_count + fail_count = Cardinality(CreateCalls))
    /\ [][OneCounterPerScene]_vars

C29_Witness ==
    /\ BulkFinished
    /\ success_count >= 1
    /\ skip_count >= 1
    /\ fail_count >= 1

\* the command is past its confirmation: --yes was given or the prompt was
\* answered yes ("cancelled" is the report of a declined prompt)
PastConfirm ==
    /\ pc \in {"create", "delete", "loop", "done"}
    /\ error # "cancelled"

\* the recreate steps are entered through the confirmation only
WritesFollowConfirm ==
    /\ calls' # calls => pc \in {"create", "delete"}
    /\ cmd = "duplicate" /\ pc' = "create" /\ pc # "create" => pc = "confirm"
    /\ cmd = "modify" /\ pc' = "loop" /\ pc \notin {"loop", "create", "delete"}
       => pc = "confirm"
    /\ cmd = "modify" /\ pc' \in {"create", "delete"} => pc \in {"loop", "create"}
    /\ pc = "confirm" /\ pc' \in {"create", "loop"} => error' # "cancelled"
    /\ error = "cancelled" => pc' = pc /\ calls' = calls

\* C30: in duplicate-scene and modify-scenes create_scene and delete_scene are
\* called only after --yes or a prompt answered yes; a declined prompt ends the
\* command with no backend write; duplicate-scene never calls delete_scene
C30_ConfirmationGatesWrites ==
    /\ [](cmd \in {"duplicate", "modify"} /\ calls # <<>> => PastConfirm)
    /\ [](error = "cancelled" => pc = "done" /\ calls = <<>> /\ ~args.yes)
    /\ [](cmd = "duplicate" => DeleteCalls = {})
    /\ [][WritesFollowConfirm]_vars

C30_Witness ==
    /\ cmd = "modify"
    /\ error = "cancelled"
    /\ light_operations # <<>>
    /\ target_scenes # <<>>

====
